---- MODULE Spec2Model ----
(***************************************************************************)
(* SecureIoT-VIF: the integrity verification engine, the continuous        *)
(* attestation manager, the anomaly detector, the incident manager and the *)
(* main orchestration (tasks, timers, security-event queue), as state      *)
(* machines translated from the C sources.                                 *)
(***************************************************************************)
EXTENDS Integers, Sequences, FiniteSets, TLC

(***************************************************************************)
(* Bounds of the model                                                     *)
(***************************************************************************)
\* firmware sizes offered to integrity_init_metadata, in flash blocks
MaxFirmwareSize == 3
\* chunk sizes offered in the configuration, in flash blocks
MaxChunkSize == 2
\* number of calls made to a component in one run
MaxOps == 5
\* number of flash tamperings in one run
MaxTamper == 1
\* number of calls of integrity_checker_init in one run
MaxInits == 1

(***************************************************************************)
(* Program constants                                                       *)
(***************************************************************************)
INTEGRITY_MAX_CHUNKS == 256
INTEGRITY_MAGIC == 1397048137
INTEGRITY_METADATA_VERSION == 1
INTEGRITY_HASH_SIZE == 32
INTEGRITY_SIGNATURE_SIZE == 64
FailedIdsCap == 16
CriticalChunkLimit == 4
FullCheckEvery == 100

MIN(a, b) == IF a < b THEN a ELSE b

\* integrity_method_t, in declaration order (the enum's integer values)
MethodValue(m) ==
    CASE m = "INTEGRITY_METHOD_HASH" -> 0
      [] m = "INTEGRITY_METHOD_SIGNATURE" -> 1
      [] m = "INTEGRITY_METHOD_MAC" -> 2
      [] m = "INTEGRITY_METHOD_HYBRID" -> 3

(***************************************************************************)
(* 32-bit words are kept as two 16-bit halves <<hi, lo>>.                  *)
(***************************************************************************)
RECURSIVE Xor(_, _)
Xor(a, b) ==
    IF a = 0 THEN b
    ELSE IF b = 0 THEN a
    ELSE (((a % 2) + (b % 2)) % 2) + (2 * Xor(a \div 2, b \div 2))

\* checksum = (checksum << 1) ^ byte, on a uint32_t
ShiftXor(c, byte) ==
    << ((c[1] * 2) % 65536) + (c[2] \div 32768),
       Xor((c[2] * 2) % 65536, byte) >>

\* little-endian bytes of a 32-bit field
Bytes4(x) ==
    << x % 256, (x \div 256) % 256, (x \div 65536) % 256, (x \div 16777216) % 256 >>

\* the loop body of calculate_metadata_checksum applied to n bytes that are
\* all zero: n shifts by one bit, which empty a 32-bit word when n >= 32
RECURSIVE ShiftZeros(_, _)
ShiftZeros(c, n) ==
    IF n >= 32 THEN <<0, 0>>
    ELSE IF n = 0 THEN c
    ELSE ShiftZeros(ShiftXor(c, 0), n - 1)

\* the loop of calculate_metadata_checksum over the bytes of one field
RECURSIVE ChecksumFold(_, _, _)
ChecksumFold(bytes, i, c) ==
    IF i > Len(bytes) THEN c
    ELSE ChecksumFold(bytes, i + 1, ShiftXor(c, bytes[i]))

\* calculate_metadata_checksum: every byte of integrity_metadata_t but the
\* trailing checksum, in declaration order; global_hash and global_signature
\* are never written after the memset and stay zero
calculate_metadata_checksum(m) ==
    LET c1 == ChecksumFold(Bytes4(m.magic), 1, <<0, 0>>)
        c2 == ChecksumFold(Bytes4(m.version), 1, c1)
        c3 == ChecksumFold(Bytes4(m.firmware_size), 1, c2)
        c4 == ChecksumFold(Bytes4(m.chunk_count), 1, c3)
        c5 == ChecksumFold(Bytes4(m.chunk_size), 1, c4)
        c6 == ShiftZeros(c5, INTEGRITY_HASH_SIZE)
        c7 == ShiftZeros(c6, INTEGRITY_SIGNATURE_SIZE)
        c8 == ChecksumFold(Bytes4(MethodValue(m.verification_method)), 1, c7)
        c9 == ChecksumFold(Bytes4(m.timestamp), 1, c8)
    IN  ChecksumFold(Bytes4(m.build_id), 1, c9)

ValidateMutantAlwaysTrue(m) == TRUE

integrity_validate_metadata(m) ==
    /\ m.magic = INTEGRITY_MAGIC
    /\ m.version = INTEGRITY_METADATA_VERSION
    /\ calculate_metadata_checksum(m) = m.checksum

\* the zero-filled static g_metadata
ZeroMetadata ==
    [magic |-> 0, version |-> 0, firmware_size |-> 0, chunk_count |-> 0,
     chunk_size |-> 0, verification_method |-> "INTEGRITY_METHOD_HASH",
     timestamp |-> 0, build_id |-> 0, checksum |-> <<0, 0>>]


(***************************************************************************)
(* State                                                                   *)
(***************************************************************************)
VARIABLES
    \* integrity_checker.c
    g_integrity_initialized, g_config, g_metadata, g_chunks, g_stats,
    g_integrity_mutex, g_runtime_check_task, next_chunk_to_check, check_cycle,
    \* the flash the engine reads, by block address
    flash,
    \* history of the engine's calls, for the properties
    integ_last, ref_data, scan_log, ops, tampers, inits,
    \* esp_timer_get_time(), in microseconds
    now

integVars ==
    << g_integrity_initialized, g_config, g_metadata, g_chunks, g_stats,
       g_integrity_mutex, g_runtime_check_task, next_chunk_to_check,
       check_cycle, flash, integ_last, ref_data, scan_log, ops, tampers, inits >>

(***************************************************************************)
(* Integrity engine: data                                                  *)
(***************************************************************************)
FirmwareSizes == {MaxFirmwareSize}
\* the chunk table's slots the bounded firmware sizes can fill
NSlots == MaxFirmwareSize
ChunkIds == 0..(NSlots - 1)
\* integrity_generate_chunks is called with firmware_start = firmware_size,
\* so the engine reads the blocks firmware_size .. 2 * firmware_size - 1
FlashSize == 2 * MaxFirmwareSize
FlashAddrs == MaxFirmwareSize..(FlashSize - 1)
ByteValues == {0, 1}

\* the configuration used when integrity_checker_init is given NULL
DefaultConfig ==
    [enable_runtime_check |-> TRUE, enable_incremental_check |-> TRUE,
     chunk_size |-> 4096, max_concurrent_checks |-> 2,
     preferred_method |-> "INTEGRITY_METHOD_HYBRID"]

\* the configurations a caller passes in
ConfigChoices ==
    { DefaultConfig,
      [enable_runtime_check |-> TRUE, enable_incremental_check |-> TRUE,
       chunk_size |-> 1, max_concurrent_checks |-> 2,
       preferred_method |-> "INTEGRITY_METHOD_HYBRID"],
      [enable_runtime_check |-> TRUE, enable_incremental_check |-> TRUE,
       chunk_size |-> MaxChunkSize, max_concurrent_checks |-> 1,
       preferred_method |-> "INTEGRITY_METHOD_HASH"] }

\* the zero-filled static g_config
ZeroConfig ==
    [enable_runtime_check |-> FALSE, enable_incremental_check |-> FALSE,
     chunk_size |-> 0, max_concurrent_checks |-> 0,
     preferred_method |-> "INTEGRITY_METHOD_HASH"]

ZeroChunk ==
    [chunk_id |-> 0, start_address |-> 0, size |-> 0, hash |-> 0,
     is_critical |-> FALSE, is_verified |-> FALSE, check_count |-> 0,
     last_check_time |-> 0]

ZeroStats ==
    [total_checks |-> 0, successful_checks |-> 0, failed_checks |-> 0,
     corruption_detections |-> 0, last_full_check_time |-> 0]

\* what can go wrong while one chunk is read and checked: the allocation,
\* the flash read, the hash computation, the chunk's signature
FaultKinds == {"none", "alloc", "read", "hash", "sig"}
\* at most this many chunks meet a fault in one operation
MaxFaults == 1
NoFaults == [i \in ChunkIds |-> "none"]
RECURSIVE WithFaults(_)
WithFaults(n) ==
    IF n = 0 THEN {NoFaults}
    ELSE LET fewer == WithFaults(n - 1)
         IN  fewer \cup { [f EXCEPT ![i] = k] :
                            f \in fewer, i \in ChunkIds, k \in FaultKinds \ {"none"} }
FaultMaps == WithFaults(MaxFaults)
\* at most this many chunks meet a fault in one full check whose overall
\* status is examined
MaxScanFaults == 2
\* a failed hash computation and a failed allocation give the same status:
\* the allocation stands for both
ScanFaultMaps ==
    { f \in WithFaults(MaxScanFaults) : \A i \in ChunkIds : f[i] # "hash" }
\* the configurations whose chunk table has more than one chunk
ScanConfigs == { cfg \in ConfigChoices : cfg.chunk_size < MaxFirmwareSize }
\* the faults that the generation of the chunk table can meet: it verifies
\* no signature
GenFaultMaps == { f \in FaultMaps : \A i \in ChunkIds : f[i] # "sig" }

RequiresSignature(cfg) ==
    cfg.preferred_method \in {"INTEGRITY_METHOD_SIGNATURE", "INTEGRITY_METHOD_HYBRID"}

\* the bytes of a chunk as the flash holds them
ChunkData(fl, chunk) == [k \in 1..chunk.size |-> fl[chunk.start_address + k - 1]]

\* SHA-256 of a byte string (CryptoProvider): a digest that tells the
\* bounded byte strings apart
RECURSIVE HashFold(_, _, _)
HashFold(data, i, h) ==
    IF i > Len(data) THEN h
    ELSE HashFold(data, i + 1, (h * 31 + data[i] + 1) % 65521)

crypto_hash_compute(data) == HashFold(data, 1, 7)

\* seconds since boot, as the engine stamps them
Seconds(t) == t \div 1000000


(***************************************************************************)
(* Integrity engine: the checks, as functions of the engine's state.       *)
(* ctx carries what a check reads: [init, meta, cfg, fl, faults, t].       *)
(***************************************************************************)
CalcHashMutantIgnoreData(chunk, fl, kind) ==
    [status |-> "INTEGRITY_OK", hash |-> chunk.hash]

CalcHashMutantAllocAsCorrupted(chunk, fl, kind) ==
    IF kind = "alloc"
    THEN [status |-> "INTEGRITY_ERROR_CORRUPTED", hash |-> 0]
    ELSE IF \/ kind = "read"
            \/ chunk.size = 0
            \/ chunk.start_address + chunk.size > FlashSize
    THEN [status |-> "INTEGRITY_ERROR_FLASH_READ", hash |-> 0]
    ELSE IF kind = "hash"
    THEN [status |-> "INTEGRITY_ERROR_MEMORY", hash |-> 0]
    ELSE [status |-> "INTEGRITY_OK", hash |-> crypto_hash_compute(ChunkData(fl, chunk))]

calculate_chunk_hash(chunk, fl, kind) ==
    IF kind = "alloc"
    THEN [status |-> "INTEGRITY_ERROR_MEMORY", hash |-> 0]
    ELSE IF \/ kind = "read"
            \/ chunk.size = 0
            \/ chunk.start_address + chunk.size > FlashSize
    THEN [status |-> "INTEGRITY_ERROR_FLASH_READ", hash |-> 0]
    ELSE IF kind = "hash"
    THEN [status |-> "INTEGRITY_ERROR_MEMORY", hash |-> 0]
    ELSE [status |-> "INTEGRITY_OK", hash |-> crypto_hash_compute(ChunkData(fl, chunk))]

\* one call of trigger_integrity_event
IntegrityEvent(status, chunk_id) == [status |-> status, chunk_id |-> chunk_id]

ChunkMutantSkipSignature(ctx, chunks, chunk_id) ==
    IF \/ ~ctx.init
       \/ chunk_id >= ctx.meta.chunk_count
    THEN [status |-> "INTEGRITY_ERROR_NOT_INITIALIZED", chunks |-> chunks, events |-> <<>>]
    ELSE
      LET h == calculate_chunk_hash(chunks[chunk_id], ctx.fl, ctx.faults[chunk_id])
      IN  IF h.status # "INTEGRITY_OK"
          THEN [status |-> h.status, chunks |-> chunks, events |-> <<>>]
          ELSE IF h.hash # chunks[chunk_id].hash
          THEN [status |-> "INTEGRITY_ERROR_CORRUPTED",
                chunks |-> [chunks EXCEPT ![chunk_id].is_verified = FALSE],
                events |-> << [status |-> "INTEGRITY_ERROR_CORRUPTED", chunk_id |-> chunk_id] >>]
          ELSE [status |-> "INTEGRITY_OK",
                chunks |-> [chunks EXCEPT ![chunk_id].is_verified = TRUE],
                events |-> <<>>]

\* returns [status, chunks, events]
integrity_check_chunk(ctx, chunks, chunk_id) ==
    IF \/ ~ctx.init
       \/ chunk_id >= ctx.meta.chunk_count
       \/ chunk_id >= INTEGRITY_MAX_CHUNKS
    THEN [status |-> "INTEGRITY_ERROR_NOT_INITIALIZED", chunks |-> chunks, events |-> <<>>]
    ELSE
      LET chunk == chunks[chunk_id]
          h == calculate_chunk_hash(chunk, ctx.fl, ctx.faults[chunk_id])
      IN  IF h.status # "INTEGRITY_OK"
          THEN [status |-> h.status, chunks |-> chunks, events |-> <<>>]
          ELSE IF h.hash # chunk.hash
          THEN [status |-> "INTEGRITY_ERROR_CORRUPTED",
                chunks |-> [chunks EXCEPT ![chunk_id].is_verified = FALSE],
                events |-> << IntegrityEvent("INTEGRITY_ERROR_CORRUPTED", chunk_id) >>]
          ELSE IF RequiresSignature(ctx.cfg) /\ ctx.faults[chunk_id] = "sig"
          THEN [status |-> "INTEGRITY_ERROR_SIGNATURE",
                chunks |-> [chunks EXCEPT ![chunk_id].is_verified = FALSE],
                events |-> << IntegrityEvent("INTEGRITY_ERROR_SIGNATURE", chunk_id) >>]
          ELSE [status |-> "INTEGRITY_OK",
                chunks |-> [chunks EXCEPT
                              ![chunk_id].is_verified = TRUE,
                              ![chunk_id].last_check_time = Seconds(ctx.t),
                              ![chunk_id].check_count = @ + 1],
                events |-> <<>>]

\* the integrity_result_t a caller passes in, before it is written
NoResult ==
    [written |-> FALSE, status |-> "INTEGRITY_OK", total_chunks |-> 0,
     verified_chunks |-> 0, failed_chunks |-> 0, corrupted_chunks |-> 0,
     failed_chunk_ids |-> <<>>, failed_count |-> 0, has_corruption |-> FALSE,
     signature_valid |-> FALSE]

\* the switch on a chunk's status in the scan loops
AccumulateMutantDropFailed(res, i, chunk_status) ==
    CASE chunk_status = "INTEGRITY_OK" ->
           [res EXCEPT !.verified_chunks = @ + 1]
      [] chunk_status = "INTEGRITY_ERROR_CORRUPTED" ->
           [res EXCEPT !.corrupted_chunks = @ + 1, !.has_corruption = TRUE,
                       !.status = "INTEGRITY_ERROR_CORRUPTED"]
      [] OTHER ->
           [res EXCEPT !.status = IF @ = "INTEGRITY_OK" THEN chunk_status ELSE @]

AccumulateMutantLastFailure(res, i, chunk_status) ==
    CASE chunk_status = "INTEGRITY_OK" ->
           [res EXCEPT !.verified_chunks = @ + 1]
      [] chunk_status = "INTEGRITY_ERROR_CORRUPTED" ->
           [res EXCEPT !.corrupted_chunks = @ + 1, !.has_corruption = TRUE,
                       !.status = "INTEGRITY_ERROR_CORRUPTED"]
      [] OTHER ->
           [res EXCEPT !.failed_chunks = @ + 1, !.status = chunk_status]

AccumulateMutantNoCap(res, i, chunk_status) ==
    CASE chunk_status = "INTEGRITY_OK" ->
           [res EXCEPT !.verified_chunks = @ + 1]
      [] chunk_status = "INTEGRITY_ERROR_CORRUPTED" ->
           [res EXCEPT
              !.corrupted_chunks = @ + 1,
              !.has_corruption = TRUE,
              !.failed_chunk_ids = Append(@, i),
              !.failed_count = @ + 1,
              !.status = "INTEGRITY_ERROR_CORRUPTED"]
      [] OTHER ->
           [res EXCEPT
              !.failed_chunks = @ + 1,
              !.failed_chunk_ids = Append(@, i),
              !.failed_count = @ + 1,
              !.status = IF @ = "INTEGRITY_OK" THEN chunk_status ELSE @]

Accumulate(res, i, chunk_status) ==
    CASE chunk_status = "INTEGRITY_OK" ->
           [res EXCEPT !.verified_chunks = @ + 1]
      [] chunk_status = "INTEGRITY_ERROR_CORRUPTED" ->
           [res EXCEPT
              !.corrupted_chunks = @ + 1,
              !.has_corruption = TRUE,
              !.failed_chunk_ids = IF res.failed_count < FailedIdsCap THEN Append(@, i) ELSE @,
              !.failed_count = IF res.failed_count < FailedIdsCap THEN @ + 1 ELSE @,
              !.status = "INTEGRITY_ERROR_CORRUPTED"]
      [] OTHER ->
           [res EXCEPT
              !.failed_chunks = @ + 1,
              !.failed_chunk_ids = IF res.failed_count < FailedIdsCap THEN Append(@, i) ELSE @,
              !.failed_count = IF res.failed_count < FailedIdsCap THEN @ + 1 ELSE @,
              !.status = IF @ = "INTEGRITY_OK" THEN chunk_status ELSE @]

\* for (i = 0; i < chunk_count && i < INTEGRITY_MAX_CHUNKS; i++), over all
\* chunks or (critical_only) over the chunks flagged critical
RECURSIVE ScanLoop(_, _, _, _)
ScanLoop(ctx, i, acc, critical_only) ==
    IF ~(i < ctx.meta.chunk_count /\ i < INTEGRITY_MAX_CHUNKS) THEN acc
    ELSE IF critical_only /\ ~acc.chunks[i].is_critical
    THEN ScanLoop(ctx, i + 1, acc, critical_only)
    ELSE
      LET c == integrity_check_chunk(ctx, acc.chunks, i)
          counted == IF critical_only
                     THEN [acc.res EXCEPT !.total_chunks = @ + 1]
                     ELSE acc.res
      IN  ScanLoop(ctx, i + 1,
                   [chunks |-> c.chunks,
                    res |-> Accumulate(counted, i, c.status),
                    events |-> acc.events \o c.events,
                    checked |-> Append(acc.checked, i),
                    statuses |-> Append(acc.statuses, c.status)],
                   critical_only)

\* signature_verify_firmware: gsig is the CryptoProvider's verdict
GlobalSignature(ctx, res, gsig) ==
    IF RequiresSignature(ctx.cfg)
    THEN IF gsig
         THEN [res EXCEPT !.signature_valid = TRUE]
         ELSE [res EXCEPT !.signature_valid = FALSE,
                          !.status = IF @ = "INTEGRITY_OK"
                                     THEN "INTEGRITY_ERROR_SIGNATURE" ELSE @]
    ELSE [res EXCEPT !.signature_valid = TRUE]

DetailedMutantNoInitCheck(ctx, chunks, mutex_ok, gsig) ==
    LET start == [chunks |-> chunks,
                  res |-> [NoResult EXCEPT !.written = TRUE,
                                           !.total_chunks = ctx.meta.chunk_count],
                  events |-> <<>>, checked |-> <<>>, statuses |-> <<>>]
        acc == ScanLoop(ctx, 0, start, FALSE)
        res == GlobalSignature(ctx, acc.res, gsig)
    IN  [status |-> res.status, chunks |-> acc.chunks, res |-> res,
         events |-> acc.events, checked |-> acc.checked,
         statuses |-> acc.statuses, mutex |-> "taken"]

\* returns [status, chunks, res, events, checked]; mutex_ok: the mutex was
\* obtained within 5 s
integrity_check_firmware_detailed(ctx, chunks, mutex_ok, gsig) ==
    IF ~ctx.init
    THEN [status |-> "INTEGRITY_ERROR_NOT_INITIALIZED", chunks |-> chunks,
          res |-> NoResult, events |-> <<>>, checked |-> <<>>, statuses |-> <<>>,
          mutex |-> "not_taken"]
    ELSE IF ~mutex_ok
    THEN [status |-> "INTEGRITY_ERROR_TIMEOUT", chunks |-> chunks,
          res |-> NoResult, events |-> <<>>, checked |-> <<>>, statuses |-> <<>>,
          mutex |-> "timeout"]
    ELSE
      LET start == [chunks |-> chunks,
                    res |-> [NoResult EXCEPT !.written = TRUE,
                                             !.total_chunks = ctx.meta.chunk_count],
                    events |-> <<>>, checked |-> <<>>, statuses |-> <<>>]
          acc == ScanLoop(ctx, 0, start, FALSE)
          res == GlobalSignature(ctx, acc.res, gsig)
      IN  [status |-> res.status, chunks |-> acc.chunks, res |-> res,
           events |-> acc.events, checked |-> acc.checked,
           statuses |-> acc.statuses, mutex |-> "taken"]

integrity_check_firmware(ctx, chunks, mutex_ok, gsig) ==
    IF ~ctx.init
    THEN [status |-> "INTEGRITY_ERROR_NOT_INITIALIZED", chunks |-> chunks,
          res |-> NoResult, events |-> <<>>, checked |-> <<>>, statuses |-> <<>>,
          mutex |-> "not_taken"]
    ELSE integrity_check_firmware_detailed(ctx, chunks, mutex_ok, gsig)

integrity_check_critical_sections(ctx, chunks) ==
    IF ~ctx.init
    THEN [status |-> "INTEGRITY_ERROR_NOT_INITIALIZED", chunks |-> chunks,
          res |-> NoResult, events |-> <<>>, checked |-> <<>>, statuses |-> <<>>,
          mutex |-> "not_taken"]
    ELSE
      LET start == [chunks |-> chunks,
                    res |-> [NoResult EXCEPT !.written = TRUE],
                    events |-> <<>>, checked |-> <<>>, statuses |-> <<>>]
          acc == ScanLoop(ctx, 0, start, TRUE)
      IN  [status |-> acc.res.status, chunks |-> acc.chunks, res |-> acc.res,
           events |-> acc.events, checked |-> acc.checked,
           statuses |-> acc.statuses, mutex |-> "not_taken"]

\* for (i = 0; i < chunks_to_check; i++) of integrity_incremental_check:
\* acc.status stops the loop at the first chunk that is not OK
RECURSIVE IncrementalLoop(_, _, _, _, _)
IncrementalLoop(ctx, cursor, i, n, acc) ==
    IF i >= n \/ acc.status # "INTEGRITY_OK" THEN acc
    ELSE
      LET chunk_id == (cursor + i) % ctx.meta.chunk_count
          c == integrity_check_chunk(ctx, acc.chunks, chunk_id)
      IN  IncrementalLoop(ctx, cursor, i + 1, n,
                          [status |-> c.status, chunks |-> c.chunks,
                           events |-> acc.events \o c.events,
                           checked |-> Append(acc.checked, chunk_id),
                           statuses |-> Append(acc.statuses, c.status)])

\* returns [status, chunks, cursor, events, checked]
integrity_incremental_check(ctx, chunks, cursor) ==
    IF ~ctx.init
    THEN [status |-> "INTEGRITY_ERROR_NOT_INITIALIZED", chunks |-> chunks,
          cursor |-> cursor, events |-> <<>>, checked |-> <<>>, statuses |-> <<>>]
    ELSE
      LET chunks_to_check == MIN(ctx.cfg.max_concurrent_checks, ctx.meta.chunk_count)
          acc == IncrementalLoop(ctx, cursor, 0, chunks_to_check,
                                 [status |-> "INTEGRITY_OK", chunks |-> chunks,
                                  events |-> <<>>, checked |-> <<>>,
                                  statuses |-> <<>>])
      IN  [status |-> acc.status, chunks |-> acc.chunks,
           cursor |-> IF acc.status = "INTEGRITY_OK"
                      THEN (cursor + chunks_to_check) % ctx.meta.chunk_count
                      ELSE cursor,
           events |-> acc.events, checked |-> acc.checked,
           statuses |-> acc.statuses]


(***************************************************************************)
(* Integrity engine: operations                                            *)
(***************************************************************************)
\* what the engine's last call was, what it returned, the status of each
\* chunk it examined, and what became of the mutex
NoCall ==
    [op |-> "none", chunk_id |-> 0, status |-> "INTEGRITY_OK", ret |-> "ESP_OK",
     fault |-> "none", res |-> NoResult, events |-> <<>>, checked |-> <<>>,
     valid_before |-> TRUE, cursor_before |-> 0,
     statuses |-> <<>>, mutex |-> "not_taken", critical |-> <<>>]

NoRef == [ok |-> FALSE, data |-> <<>>]

IntegInit ==
    /\ g_integrity_initialized = FALSE
    /\ g_config = ZeroConfig
    /\ g_metadata = ZeroMetadata
    /\ g_chunks = [i \in ChunkIds |-> ZeroChunk]
    /\ g_stats = ZeroStats
    /\ g_integrity_mutex = "NULL"
    /\ g_runtime_check_task = FALSE
    /\ next_chunk_to_check = 0
    /\ check_cycle = 0
    /\ flash = [a \in FlashAddrs |-> 0]
    /\ integ_last = NoCall
    /\ ref_data = [i \in ChunkIds |-> NoRef]
    /\ scan_log = <<>>
    /\ ops = 0
    /\ tampers = 0
    /\ inits = 0

Ctx(faults) ==
    [init |-> g_integrity_initialized, meta |-> g_metadata, cfg |-> g_config,
     fl |-> flash, faults |-> faults, t |-> now]

\* integrity_init_metadata(firmware_start, firmware_size); the model calls
\* it only while the engine is down
InitMetadata(firmware_start, firmware_size) ==
    /\ ops < MaxOps
    /\ ~g_integrity_initialized
    /\ ops' = ops + 1
    /\ LET m == [ZeroMetadata EXCEPT
                   !.magic = INTEGRITY_MAGIC,
                   !.version = INTEGRITY_METADATA_VERSION,
                   !.firmware_size = firmware_size,
                   !.chunk_size = g_config.chunk_size,
                   !.verification_method = g_config.preferred_method,
                   !.timestamp = Seconds(now)]
       IN  g_metadata' = [m EXCEPT !.checksum = calculate_metadata_checksum(m)]
    /\ integ_last' = [NoCall EXCEPT !.op = "init_metadata"]
    /\ UNCHANGED << g_integrity_initialized, g_config, g_chunks, g_stats,
                    g_integrity_mutex, g_runtime_check_task, next_chunk_to_check,
                    check_cycle, flash, ref_data, scan_log, tampers, inits, now >>

\* the persisted metadata block is corrupted behind the engine's back: its
\* stored checksum no longer matches
TamperMetadata ==
    /\ tampers < MaxTamper
    /\ ~g_integrity_initialized
    /\ tampers' = tampers + 1
    /\ g_metadata.magic = INTEGRITY_MAGIC
    /\ g_metadata' = [g_metadata EXCEPT !.checksum = <<@[1], Xor(@[2], 1)>>]
    /\ integ_last' = [NoCall EXCEPT !.op = "tamper_metadata"]
    /\ UNCHANGED << g_integrity_initialized, g_config, g_chunks, g_stats,
                    g_integrity_mutex, g_runtime_check_task, next_chunk_to_check,
                    check_cycle, flash, ref_data, scan_log, ops, inits, now >>

\* integrity_generate_chunks: the chunk table for the image; the result of
\* calculate_chunk_hash is not looked at, so a chunk whose hashing fails
\* keeps the hash its slot held before
GeneratedChunks(chunks, fl, firmware_start, firmware_size, chunk_size, faults) ==
    LET raw == (firmware_size + chunk_size - 1) \div chunk_size
        chunk_count == IF raw > INTEGRITY_MAX_CHUNKS THEN INTEGRITY_MAX_CHUNKS ELSE raw
        fresh(i) == [chunks[i] EXCEPT
                       !.chunk_id = i,
                       !.start_address = firmware_start + (i * chunk_size),
                       !.size = MIN(chunk_size, firmware_size - (i * chunk_size)),
                       !.is_critical = (i < CriticalChunkLimit),
                       !.is_verified = FALSE]
        hashed(i) == calculate_chunk_hash(fresh(i), fl, faults[i])
    IN  [chunk_count |-> chunk_count,
         chunks |-> [i \in ChunkIds |->
                       IF i < chunk_count
                       THEN IF hashed(i).status = "INTEGRITY_OK"
                            THEN [fresh(i) EXCEPT !.hash = hashed(i).hash]
                            ELSE fresh(i)
                       ELSE chunks[i]],
         refs |-> [i \in ChunkIds |->
                     IF i < chunk_count
                     THEN IF hashed(i).status = "INTEGRITY_OK"
                          THEN [ok |-> TRUE, data |-> ChunkData(fl, fresh(i))]
                          ELSE NoRef
                     ELSE ref_data[i]]]

\* integrity_checker_init(config); mutex_created: xSemaphoreCreateMutex
\* returned a mutex; metadata_valid: what integrity_validate_metadata
\* answers for g_metadata
CheckerInitCall(config, mutex_created, faults, metadata_valid) ==
    /\ ops < MaxOps
    /\ inits < MaxInits
    /\ ops' = ops + 1
    /\ inits' = inits + 1
    /\ IF g_integrity_initialized
       THEN /\ integ_last' = [NoCall EXCEPT !.op = "init", !.ret = "ESP_OK"]
            /\ UNCHANGED << g_integrity_initialized, g_config, g_metadata, g_chunks,
                            g_stats, g_integrity_mutex, g_runtime_check_task,
                            next_chunk_to_check, check_cycle, flash, ref_data,
                            scan_log, tampers, now >>
       ELSE
         /\ g_config' = config
         /\ IF ~mutex_created
            THEN /\ g_integrity_mutex' = "NULL"
                 /\ integ_last' = [NoCall EXCEPT !.op = "init", !.ret = "ESP_ERR_NO_MEM",
                                      !.valid_before = metadata_valid]
                 /\ UNCHANGED << g_integrity_initialized, g_metadata, g_chunks,
                                 g_stats, ref_data >>
            ELSE
              /\ g_integrity_mutex' = "free"
              /\ g_stats' = ZeroStats
              /\ IF ~metadata_valid
                 THEN /\ integ_last' = [NoCall EXCEPT !.op = "init", !.ret = "ESP_FAIL",
                                           !.valid_before = FALSE]
                      /\ UNCHANGED << g_integrity_initialized, g_metadata, g_chunks,
                                      ref_data >>
                 ELSE
                   /\ LET gen == GeneratedChunks(g_chunks, flash,
                                                 g_metadata.firmware_size,
                                                 g_metadata.firmware_size,
                                                 config.chunk_size, faults)
                      IN  IF g_metadata.chunk_count = 0
                          THEN /\ g_metadata' = [g_metadata EXCEPT !.chunk_count = gen.chunk_count]
                               /\ g_chunks' = gen.chunks
                               /\ ref_data' = gen.refs
                          ELSE UNCHANGED << g_metadata, g_chunks, ref_data >>
                   /\ g_integrity_initialized' = TRUE
                   /\ integ_last' = [NoCall EXCEPT !.op = "init", !.ret = "ESP_OK"]
         /\ UNCHANGED << g_runtime_check_task, next_chunk_to_check, check_cycle,
                         flash, scan_log, tampers, now >>

\* the calls of integrity_checker_init; the configuration, the outcome of
\* the mutex creation and the faults met while hashing are the inputs
CheckerInit ==
    LET metadata_valid == integrity_validate_metadata(g_metadata)
    IN  \/ \E cfg \in ConfigChoices, f \in GenFaultMaps :
              CheckerInitCall(cfg, TRUE, f, metadata_valid)
        \/ \E cfg \in ConfigChoices :
              CheckerInitCall(cfg, FALSE, NoFaults, metadata_valid)

\* integrity_checker_deinit, with integrity_stop_runtime_check
CheckerDeinit ==
    /\ ops < MaxOps
    /\ g_integrity_initialized
    /\ ops' = ops + 1
    /\ g_runtime_check_task' = FALSE
    /\ g_integrity_mutex' = "NULL"
    /\ g_integrity_initialized' = FALSE
    /\ integ_last' = [NoCall EXCEPT !.op = "deinit"]
    /\ scan_log' = <<>>
    /\ UNCHANGED << g_config, g_metadata, g_chunks, g_stats, next_chunk_to_check,
                    check_cycle, flash, ref_data, tampers, inits, now >>

\* a block of the image is overwritten with another value
TamperFlash(addr, v) ==
    /\ tampers < MaxTamper
    /\ flash[addr] # v
    /\ flash' = [flash EXCEPT ![addr] = v]
    /\ tampers' = tampers + 1
    /\ integ_last' = [NoCall EXCEPT !.op = "tamper_flash"]
    /\ UNCHANGED << g_integrity_initialized, g_config, g_metadata, g_chunks,
                    g_stats, g_integrity_mutex, g_runtime_check_task,
                    next_chunk_to_check, check_cycle, ref_data,
                    scan_log, ops, inits, now >>

\* integrity_check_chunk(chunk_id), called on its own
CheckChunk(chunk_id, kind) ==
    /\ ops < MaxOps
    /\ LET c == integrity_check_chunk(Ctx([NoFaults EXCEPT ![chunk_id] = kind]),
                                      g_chunks, chunk_id)
       IN  /\ g_chunks' = c.chunks
           /\ integ_last' = [NoCall EXCEPT !.op = "check_chunk", !.chunk_id = chunk_id,
                                           !.status = c.status, !.fault = kind,
                                           !.events = c.events]
    /\ ops' = ops + 1
    /\ UNCHANGED << g_integrity_initialized, g_config, g_metadata, g_stats,
                    g_integrity_mutex, g_runtime_check_task, next_chunk_to_check,
                    check_cycle, flash, ref_data, scan_log, tampers, inits, now >>

\* integrity_check_firmware_detailed(&result)
CheckFirmwareDetailed(faults, mutex_ok, gsig) ==
    /\ ops < MaxOps
    /\ LET c == integrity_check_firmware_detailed(Ctx(faults), g_chunks,
                                                  mutex_ok, gsig)
       IN  /\ g_chunks' = c.chunks
           /\ integ_last' = [NoCall EXCEPT !.op = "check_firmware_detailed",
                                           !.status = c.status, !.res = c.res,
                                           !.events = c.events, !.checked = c.checked,
                                           !.statuses = c.statuses, !.mutex = c.mutex]
    /\ ops' = ops + 1
    /\ UNCHANGED << g_integrity_initialized, g_config, g_metadata, g_stats,
                    g_integrity_mutex, g_runtime_check_task, next_chunk_to_check,
                    check_cycle, flash, ref_data, scan_log, tampers, inits, now >>

\* the is_critical flags of the chunks of the table, in the table's order
CriticalFlags(metadata, chunks) ==
    [k \in 1..MIN(metadata.chunk_count, INTEGRITY_MAX_CHUNKS) |-> chunks[k - 1].is_critical]

\* integrity_check_critical_sections(&result)
CheckCriticalSections(faults) ==
    /\ ops < MaxOps
    /\ LET c == integrity_check_critical_sections(Ctx(faults), g_chunks)
       IN  /\ g_chunks' = c.chunks
           /\ integ_last' = [NoCall EXCEPT !.op = "check_critical_sections",
                                           !.status = c.status, !.res = c.res,
                                           !.events = c.events, !.checked = c.checked,
                                           !.statuses = c.statuses, !.mutex = c.mutex,
                                           !.critical = CriticalFlags(g_metadata, g_chunks)]
    /\ ops' = ops + 1
    /\ UNCHANGED << g_integrity_initialized, g_config, g_metadata, g_stats,
                    g_integrity_mutex, g_runtime_check_task, next_chunk_to_check,
                    check_cycle, flash, ref_data, scan_log, tampers, inits, now >>

\* number of chunks of a table whose scan is followed past the cap of
\* failed_chunk_ids
MaxTable == 18

\* the statuses integrity_check_chunk returns along a table of n chunks: all
\* corrupted, but for at most one chunk that is verified or cannot be
\* allocated a buffer
TableStatuses ==
    { [k \in 1..n |-> IF k = other THEN status ELSE "INTEGRITY_ERROR_CORRUPTED"] :
        n \in 1..MaxTable, other \in 0..MaxTable,
        status \in {"INTEGRITY_OK", "INTEGRITY_ERROR_MEMORY"} }

\* the loop of integrity_check_firmware_detailed from chunk i on, the chunk
\* checks returning the given statuses
RECURSIVE TableLoop(_, _, _)
TableLoop(statuses, i, res) ==
    IF ~(i < Len(statuses) /\ i < INTEGRITY_MAX_CHUNKS) THEN res
    ELSE TableLoop(statuses, i + 1, Accumulate(res, i, statuses[i + 1]))

\* the loop of integrity_check_firmware_detailed over a table of
\* Len(statuses) chunks, before the engine is set up
ScanTable(statuses) ==
    /\ ops < MaxOps
    /\ integ_last.op = "none"
    /\ LET res == TableLoop(statuses, 0,
                            [NoResult EXCEPT !.written = TRUE,
                                             !.total_chunks = Len(statuses)])
       IN  integ_last' =
              [NoCall EXCEPT
                 !.op = "scan_loop", !.res = res, !.status = res.status,
                 !.checked = [k \in 1..Len(statuses) |-> k - 1],
                 !.statuses = statuses, !.mutex = "taken"]
    /\ ops' = ops + 1
    /\ UNCHANGED << g_integrity_initialized, g_config, g_metadata, g_chunks, g_stats,
                    g_integrity_mutex, g_runtime_check_task, next_chunk_to_check,
                    check_cycle, flash, ref_data, scan_log, tampers, inits, now >>

\* number of chunks of a table that holds chunks not flagged critical
MaxCriticalTable == 6

\* the statuses integrity_check_chunk returns along a table of n chunks
CriticalStatuses ==
    UNION { [1..n -> {"INTEGRITY_OK", "INTEGRITY_ERROR_CORRUPTED", "INTEGRITY_ERROR_MEMORY"}] :
              n \in 1..MaxCriticalTable }

\* the flags integrity_generate_chunks gives a table of n chunks
GeneratedFlags(n) == [k \in 1..n |-> (k - 1) < CriticalChunkLimit]

CriticalLoopMutantAllChunks(flags, statuses, i, acc) ==
    [res |-> TableLoop(statuses, 0, [acc.res EXCEPT !.total_chunks = Len(statuses)]),
     checked |-> [k \in 1..Len(statuses) |-> k - 1]]

\* the loop of integrity_check_critical_sections from chunk i on, over a
\* table with the given is_critical flags, the chunk checks returning the
\* given statuses
RECURSIVE CriticalLoop(_, _, _, _)
CriticalLoop(flags, statuses, i, acc) ==
    IF ~(i < Len(statuses) /\ i < INTEGRITY_MAX_CHUNKS) THEN acc
    ELSE IF ~flags[i + 1]
    THEN CriticalLoop(flags, statuses, i + 1, acc)
    ELSE CriticalLoop(flags, statuses, i + 1,
                      [res |-> Accumulate([acc.res EXCEPT !.total_chunks = @ + 1],
                                          i, statuses[i + 1]),
                       checked |-> Append(acc.checked, i)])

\* the loop of integrity_check_critical_sections over a table of
\* Len(statuses) chunks as integrity_generate_chunks flags them, before the
\* engine is set up
ScanCritical(statuses) ==
    /\ ops < MaxOps
    /\ integ_last.op = "none"
    /\ LET flags == GeneratedFlags(Len(statuses))
           acc == CriticalLoop(flags, statuses, 0,
                               [res |-> [NoResult EXCEPT !.written = TRUE],
                                checked |-> <<>>])
       IN  integ_last' =
              [NoCall EXCEPT
                 !.op = "critical_loop", !.res = acc.res, !.status = acc.res.status,
                 !.checked = acc.checked,
                 !.statuses = [j \in 1..Len(acc.checked) |-> statuses[acc.checked[j] + 1]],
                 !.critical = flags]
    /\ ops' = ops + 1
    /\ UNCHANGED << g_integrity_initialized, g_config, g_metadata, g_chunks, g_stats,
                    g_integrity_mutex, g_runtime_check_task, next_chunk_to_check,
                    check_cycle, flash, ref_data, scan_log, tampers, inits, now >>

\* integrity_start_runtime_check; task_created: xTaskCreate returned pdPASS
StartRuntimeCheck(task_created) ==
    /\ ops < MaxOps
    /\ g_integrity_initialized
    /\ ops' = ops + 1
    /\ g_config.enable_runtime_check
    /\ ~g_runtime_check_task
    /\ g_runtime_check_task' = task_created
    /\ integ_last' = [NoCall EXCEPT !.op = "start_runtime_check",
                                    !.ret = IF task_created THEN "ESP_OK"
                                            ELSE "ESP_ERR_NO_MEM"]
    /\ check_cycle' = 0
    /\ UNCHANGED << g_integrity_initialized, g_config, g_metadata, g_chunks,
                    g_stats, g_integrity_mutex, next_chunk_to_check, scan_log,
                    flash, ref_data, tampers, inits, now >>

\* incremental_timer_callback, of the timer integrity_start_runtime_check
\* creates: it notifies the runtime check task from interrupt context and
\* touches nothing of the engine
IncrementalTimerCallback ==
    /\ g_runtime_check_task
    /\ g_config.enable_incremental_check
    /\ integ_last' = [NoCall EXCEPT !.op = "incremental_timer"]
    /\ UNCHANGED << g_integrity_initialized, g_config, g_metadata, g_chunks,
                    g_stats, g_integrity_mutex, g_runtime_check_task,
                    next_chunk_to_check, check_cycle, flash, ref_data, scan_log,
                    ops, tampers, inits, now >>

\* invocations of the incremental scan a full pass takes: ceil(N / B), B the
\* number of chunks one invocation visits
PassLength(meta, cfg) ==
    LET n == meta.chunk_count
        b == MIN(cfg.max_concurrent_checks, n)
    IN  (n + b - 1) \div b

\* the chunks visited by the last PassLength invocations
Logged(log, entry, k) ==
    LET all == Append(log, entry)
    IN  IF Len(all) > k THEN SubSeq(all, Len(all) - k + 1, Len(all)) ELSE all

\* integrity_incremental_check(), called on its own
IncrementalCheck(faults) ==
    /\ ops < MaxOps
    /\ LET c == integrity_incremental_check(Ctx(faults), g_chunks, next_chunk_to_check)
       IN  /\ g_chunks' = c.chunks
           /\ next_chunk_to_check' = c.cursor
           /\ scan_log' = IF g_integrity_initialized
                          THEN Logged(scan_log, c.checked, PassLength(g_metadata, g_config))
                          ELSE scan_log
           /\ integ_last' = [NoCall EXCEPT !.op = "incremental_check",
                                           !.status = c.status, !.events = c.events,
                                           !.checked = c.checked,
                                           !.cursor_before = next_chunk_to_check,
                                           !.statuses = c.statuses]
    /\ ops' = ops + 1
    /\ UNCHANGED << g_integrity_initialized, g_config, g_metadata, g_stats,
                    g_integrity_mutex, g_runtime_check_task, check_cycle, flash,
                    ref_data, tampers, inits, now >>

\* the periodic full check at the end of a cycle of runtime_check_task
PeriodicFull(chunks, stats, cycle, faults, mutex_ok, gsig) ==
    IF cycle % FullCheckEvery = 0
    THEN LET f == integrity_check_firmware(Ctx(faults), chunks, mutex_ok, gsig)
         IN  [chunks |-> f.chunks,
              stats |-> IF f.status = "INTEGRITY_OK"
                        THEN [stats EXCEPT !.last_full_check_time = now]
                        ELSE stats,
              events |-> f.events]
    ELSE [chunks |-> chunks, stats |-> stats, events |-> <<>>]

\* one iteration of the loop of runtime_check_task that obtained the mutex
RuntimeCheckCycle(faults, full_faults, full_mutex_ok, gsig) ==
    /\ ops < MaxOps
    /\ g_runtime_check_task
    /\ LET c == integrity_incremental_check(Ctx(faults), g_chunks, next_chunk_to_check)
           counted == IF c.status = "INTEGRITY_OK"
                      THEN [g_stats EXCEPT !.total_checks = @ + 1,
                                           !.successful_checks = @ + 1]
                      ELSE [g_stats EXCEPT !.total_checks = @ + 1,
                                           !.failed_checks = @ + 1]
           raised == IF c.status = "INTEGRITY_OK" THEN <<>>
                     ELSE << IntegrityEvent(c.status, 0) >>
           cycle == (check_cycle + 1) % FullCheckEvery
           f == PeriodicFull(c.chunks, counted, cycle, full_faults, full_mutex_ok, gsig)
       IN  /\ g_chunks' = f.chunks
           /\ g_stats' = f.stats
           /\ next_chunk_to_check' = c.cursor
           /\ check_cycle' = cycle
           /\ scan_log' = Logged(scan_log, c.checked, PassLength(g_metadata, g_config))
           /\ integ_last' = [NoCall EXCEPT !.op = "runtime_cycle",
                                           !.status = c.status,
                                           !.events = c.events \o raised \o f.events,
                                           !.checked = c.checked,
                                           !.cursor_before = next_chunk_to_check,
                                           !.statuses = c.statuses, !.mutex = "taken"]
    /\ ops' = ops + 1
    /\ UNCHANGED << g_integrity_initialized, g_config, g_metadata,
                    g_integrity_mutex, g_runtime_check_task, flash, ref_data,
                    tampers, inits, now >>

\* k consecutive iterations of runtime_check_task that time out on the
\* mutex, none of them the hundredth
RuntimeCheckStarved(k) ==
    /\ g_runtime_check_task
    /\ check_cycle + k < FullCheckEvery
    /\ check_cycle' = check_cycle + k
    /\ integ_last' = [NoCall EXCEPT !.op = "runtime_starved", !.mutex = "timeout"]
    /\ UNCHANGED << g_integrity_initialized, g_config, g_metadata, g_chunks,
                    g_stats, g_integrity_mutex, g_runtime_check_task,
                    next_chunk_to_check, flash, ref_data, scan_log, ops,
                    tampers, inits, now >>

StarvedRuns == {FullCheckEvery - 1}

\* the verification operations
VerificationOps ==
    {"check_chunk", "check_firmware_detailed", "check_critical_sections",
     "incremental_check"}

(***************************************************************************)
(* Integrity engine: scans in progress.  A scan of the chunk table is one  *)
(* step per chunk, so that the scans of two tasks can interleave as the    *)
(* scheduler lets them.                                                    *)
(***************************************************************************)
VARIABLES
    \* for each calling task, the scan it is in the middle of: the function
    \* it called, the loop index i and the result built so far
    scanning

\* the tasks that call into the engine
ScanTasks == {"runtime_check_task", "attestation_task"}

NoScan == [op |-> "none", i |-> 0, res |-> NoResult]

ScanInit == scanning = [t \in ScanTasks |-> NoScan]

\* no call has returned since: a scan is under way
InProgress == [NoCall EXCEPT !.op = "scan_in_progress"]

\* the task holds g_integrity_mutex
HoldsMutex(task) == g_integrity_mutex = task

\* what a step of a scan leaves alone
ScanStepFrame ==
    UNCHANGED << g_integrity_initialized, g_config, g_metadata, g_stats,
                 g_runtime_check_task, next_chunk_to_check, check_cycle, flash,
                 ref_data, scan_log, tampers, inits, now >>

\* integrity_check_firmware_detailed up to its loop: xSemaphoreTake succeeds
BeginFirmwareCheck(task) ==
    /\ ops < MaxOps
    /\ g_integrity_initialized
    /\ scanning[task].op = "none"
    /\ g_integrity_mutex = "free"
    /\ g_integrity_mutex' = task
    /\ scanning' = [scanning EXCEPT ![task] =
                      [op |-> "check_firmware_detailed", i |-> 0,
                       res |-> [NoResult EXCEPT !.written = TRUE,
                                                !.total_chunks = g_metadata.chunk_count]]]
    /\ ops' = ops + 1
    /\ integ_last' = InProgress
    /\ UNCHANGED g_chunks
    /\ ScanStepFrame

\* integrity_check_firmware_detailed when another task keeps the mutex for
\* the 5 s of the wait
FirmwareCheckTimeout(task) ==
    /\ ops < MaxOps
    /\ g_integrity_initialized
    /\ scanning[task].op = "none"
    /\ g_integrity_mutex \notin {"NULL", "free"}
    /\ integ_last' = [NoCall EXCEPT !.op = "check_firmware_detailed",
                                    !.status = "INTEGRITY_ERROR_TIMEOUT",
                                    !.mutex = "timeout"]
    /\ ops' = ops + 1
    /\ UNCHANGED << g_chunks, g_integrity_mutex, scanning >>
    /\ ScanStepFrame

\* integrity_check_critical_sections up to its loop: no semaphore is taken
BeginCriticalSections(task) ==
    /\ ops < MaxOps
    /\ g_integrity_initialized
    /\ scanning[task].op = "none"
    /\ scanning' = [scanning EXCEPT ![task] =
                      [op |-> "check_critical_sections", i |-> 0,
                       res |-> [NoResult EXCEPT !.written = TRUE]]]
    /\ ops' = ops + 1
    /\ integ_last' = InProgress
    /\ UNCHANGED << g_chunks, g_integrity_mutex >>
    /\ ScanStepFrame

\* one iteration of the loop of either function
ScanStep(task) ==
    LET s == scanning[task]
        critical_only == s.op = "check_critical_sections"
    IN  /\ s.op # "none"
        /\ s.i < g_metadata.chunk_count /\ s.i < INTEGRITY_MAX_CHUNKS
        /\ IF critical_only /\ ~g_chunks[s.i].is_critical
           THEN /\ scanning' = [scanning EXCEPT ![task].i = s.i + 1]
                /\ UNCHANGED g_chunks
           ELSE LET c == integrity_check_chunk(Ctx(NoFaults), g_chunks, s.i)
                    counted == IF critical_only
                               THEN [s.res EXCEPT !.total_chunks = @ + 1]
                               ELSE s.res
                IN  /\ g_chunks' = c.chunks
                    /\ scanning' = [scanning EXCEPT
                                      ![task].i = s.i + 1,
                                      ![task].res = Accumulate(counted, s.i, c.status)]
        /\ integ_last' = InProgress
        /\ UNCHANGED << g_integrity_mutex, ops >>
        /\ ScanStepFrame

\* the loop is over: the global signature and xSemaphoreGive for the full
\* check, the return for both
ScanEnd(task, gsig) ==
    LET s == scanning[task]
        full == s.op = "check_firmware_detailed"
        res == IF full THEN GlobalSignature(Ctx(NoFaults), s.res, gsig) ELSE s.res
    IN  /\ s.op # "none"
        /\ ~(s.i < g_metadata.chunk_count /\ s.i < INTEGRITY_MAX_CHUNKS)
        /\ g_integrity_mutex' = IF full THEN "free" ELSE g_integrity_mutex
        /\ integ_last' = [NoCall EXCEPT !.op = s.op, !.status = res.status,
                                        !.res = res,
                                        !.mutex = IF full THEN "taken" ELSE "not_taken"]
        /\ scanning' = [scanning EXCEPT ![task] = NoScan]
        /\ UNCHANGED << g_chunks, ops >>
        /\ ScanStepFrame


\* integrity_get_statistics(&stats): the copy is made with the mutex held;
\* after 1 s of waiting for a task that keeps it, ESP_ERR_TIMEOUT
GetStatistics(task) ==
    /\ ops < MaxOps
    /\ scanning[task].op = "none"
    /\ g_integrity_mutex # "NULL"
    /\ integ_last' = IF g_integrity_mutex = "free"
                     THEN [NoCall EXCEPT !.op = "get_statistics", !.ret = "ESP_OK",
                                         !.mutex = "taken"]
                     ELSE [NoCall EXCEPT !.op = "get_statistics",
                                         !.ret = "ESP_ERR_TIMEOUT", !.mutex = "timeout"]
    /\ ops' = ops + 1
    /\ UNCHANGED << g_chunks, g_integrity_mutex, scanning >>
    /\ ScanStepFrame

\* integrity_reset_statistics(): void; after 1 s of waiting for a task that
\* keeps the mutex it returns having done nothing
ResetStatistics(task) ==
    /\ ops < MaxOps
    /\ scanning[task].op = "none"
    /\ g_integrity_mutex # "NULL"
    /\ IF g_integrity_mutex = "free"
       THEN /\ g_stats' = ZeroStats
            /\ integ_last' = [NoCall EXCEPT !.op = "reset_statistics", !.ret = "void",
                                            !.mutex = "taken"]
       ELSE /\ g_stats' = g_stats
            /\ integ_last' = [NoCall EXCEPT !.op = "reset_statistics", !.ret = "void",
                                            !.mutex = "timeout"]
    /\ ops' = ops + 1
    /\ UNCHANGED << g_integrity_initialized, g_config, g_metadata, g_chunks,
                    g_integrity_mutex, g_runtime_check_task, next_chunk_to_check,
                    check_cycle, flash, ref_data, scan_log, tampers, inits, now,
                    scanning >>

\* iterations of runtime_check_task whose 100 ms wait for the mutex ends
\* while another task keeps it
RuntimeCheckTimeout(k) ==
    /\ scanning["runtime_check_task"].op = "none"
    /\ g_integrity_mutex \notin {"NULL", "free"}
    /\ RuntimeCheckStarved(k)
    /\ UNCHANGED scanning

(***************************************************************************)
(* Integrity engine: properties                                            *)
(***************************************************************************)
\* the bytes of chunk i as they are in flash now
CurrentData(i) == ChunkData(flash, g_chunks[i])

\* the last call was integrity_check_chunk on a chunk of the table whose
\* reference digest was computed, and the call read and hashed the chunk
\* without a fault
CheckedChunkCleanly ==
    /\ integ_last.op = "check_chunk"
    /\ g_integrity_initialized
    /\ integ_last.chunk_id < g_metadata.chunk_count
    /\ ref_data[integ_last.chunk_id].ok
    /\ integ_last.fault \in {"none", "sig"}

\* C2: a chunk whose bytes are the ones its reference digest was computed
\* from verifies OK whenever the read and the required signature check
\* succeed, and a chunk whose bytes were changed verifies as corrupted
C2_ChunkDeterminism ==
    CheckedChunkCleanly =>
        IF CurrentData(integ_last.chunk_id) = ref_data[integ_last.chunk_id].data
        THEN (integ_last.fault = "none" \/ ~RequiresSignature(g_config))
                 => integ_last.status = "INTEGRITY_OK"
        ELSE integ_last.status = "INTEGRITY_ERROR_CORRUPTED"

\* a chunk that verified OK twice is found corrupted once its bytes changed
C2_Witness ==
    /\ CheckedChunkCleanly
    /\ g_chunks[integ_last.chunk_id].check_count >= 2
    /\ CurrentData(integ_last.chunk_id) # ref_data[integ_last.chunk_id].data
    /\ integ_last.status = "INTEGRITY_ERROR_CORRUPTED"

\* the stored self-checksum of the metadata block is not the one computed
\* over the block
ChecksumMismatch ==
    /\ g_metadata.magic = INTEGRITY_MAGIC
    /\ g_metadata.version = INTEGRITY_METADATA_VERSION
    /\ calculate_metadata_checksum(g_metadata) # g_metadata.checksum

C38_VerifiedIffOk ==
    (integ_last.op = "check_chunk" /\ integ_last.chunk_id < g_metadata.chunk_count) =>
        (g_chunks[integ_last.chunk_id].is_verified <=> integ_last.status = "INTEGRITY_OK")

\* integrity_check_chunk could not allocate the chunk's buffer, returned
\* INTEGRITY_ERROR_MEMORY and left the flag set by an earlier call
C38_Witness ==
    /\ integ_last.op = "check_chunk"
    /\ integ_last.chunk_id < g_metadata.chunk_count
    /\ g_integrity_initialized
    /\ integ_last.fault = "alloc"
    /\ integ_last.status = "INTEGRITY_ERROR_MEMORY"
    /\ g_chunks[integ_last.chunk_id].is_verified

\* the first start: integrity_checker_init is called on the zero-filled
\* g_metadata, nothing having been persisted, and its mutex is created
FirstStart ==
    /\ inits' = inits + 1
    /\ ~g_integrity_initialized
    /\ g_metadata = ZeroMetadata
    /\ integ_last'.ret # "ESP_ERR_NO_MEM"

\* the chunks of the table start at the partition's address, 0, and every
\* block of the partition lies in one of them
TableCoversImage(metadata, chunks) ==
    /\ metadata.chunk_count > 0
    /\ chunks[0].start_address = 0
    /\ \A a \in 0..(MaxFirmwareSize - 1) :
          \E i \in ChunkIds :
             /\ i < metadata.chunk_count
             /\ chunks[i].start_address <= a
             /\ a < chunks[i].start_address + chunks[i].size

\* C37 as stated: on a first start with no persisted metadata,
\* integrity_checker_init builds fresh metadata, succeeds, and leaves the
\* engine initialized with a non-empty chunk table whose chunks start at the
\* image's base and together cover the whole image.
C37_FirstStartBuildsTable ==
    [][ FirstStart =>
            /\ integ_last'.ret = "ESP_OK"
            /\ g_integrity_initialized'
            /\ integrity_validate_metadata(g_metadata')
            /\ TableCoversImage(g_metadata', g_chunks') ]_integVars

\* integrity_checker_init was called on the zero-filled metadata, returned
\* ESP_FAIL and left the engine uninitialized with no metadata and no table
C37_Witness ==
    /\ integ_last.op = "init"
    /\ integ_last.ret = "ESP_FAIL"
    /\ ~integ_last.valid_before
    /\ g_metadata = ZeroMetadata
    /\ ~g_integrity_initialized
    /\ g_integrity_mutex = "free"

\* C4: in every result written by integrity_check_firmware_detailed the
\* verified, corrupted and failed counts add up to total_chunks
C4_AggregateCorrectness ==
    (integ_last.op = "check_firmware_detailed" /\ integ_last.res.written) =>
        integ_last.res.verified_chunks + integ_last.res.corrupted_chunks
            + integ_last.res.failed_chunks = integ_last.res.total_chunks

\* a full check that met a verified, a corrupted and a failed chunk
C4_Witness ==
    /\ integ_last.op = "check_firmware_detailed"
    /\ integ_last.res.written
    /\ integ_last.res.verified_chunks >= 1
    /\ integ_last.res.corrupted_chunks >= 1
    /\ integ_last.res.failed_chunks >= 1

\* the chunk ids visited by the invocations in scan_log
Visited == UNION { { scan_log[k][j] : j \in 1..Len(scan_log[k]) } : k \in 1..Len(scan_log) }

\* C7: any ceil(N/B) consecutive invocations of the incremental scan check
\* every chunk id at least once, whatever the chunk checks return
C7_IncrementalCoverage ==
    (g_integrity_initialized /\ Len(scan_log) = PassLength(g_metadata, g_config)) =>
        \A i \in ChunkIds : i < g_metadata.chunk_count => i \in Visited

\* a pass of ceil(N/B) invocations, one of them failing, that left a chunk
\* unvisited
C7_Witness ==
    /\ g_integrity_initialized
    /\ Len(scan_log) = PassLength(g_metadata, g_config)
    /\ integ_last.op \in {"incremental_check", "runtime_cycle"}
    /\ integ_last.status # "INTEGRITY_OK"
    /\ \E i \in ChunkIds : i < g_metadata.chunk_count /\ i \notin Visited


(***************************************************************************)
(* Attestation manager                                                     *)
(***************************************************************************)
VARIABLES
    g_attestation_initialized, g_sequence_counter,
    \* the record returned by the last attestation_perform_continuous call,
    \* with what happened in that cycle, and the status and sequence number
    \* returned by the call before
    att_last,
    \* sequence number of the latest successful cycle since the manager was
    \* initialised, 0 when there is none
    att_base

attVars == << g_attestation_initialized, g_sequence_counter, att_last, att_base >>

\* the values a 32-byte random challenge takes in the model
ChallengeValues == 1..2

\* the values of a random source that gives no value twice: every 32-byte
\* value, the all-zero one included, that it has not given yet
MaxChallenge == 3
SourceValues == 0..MaxChallenge
FreshValues == SourceValues \ att_last.drawn

\* attestation_result_t result = {0}
ZeroAttestation ==
    [status |-> "ATTESTATION_SUCCESS", challenge |-> 0, response |-> FALSE,
     timestamp |-> 0, is_valid |-> FALSE, sequence_number |-> 0]

NoCycle ==
    [called |-> FALSE, result |-> ZeroAttestation, random_ok |-> FALSE,
     signed |-> FALSE, integrity |-> "not_run", base |-> 0,
     draw |-> 0, drawn |-> {},
     prev |-> [called |-> FALSE, status |-> "ATTESTATION_SUCCESS", sequence_number |-> 0,
               random_ok |-> FALSE, challenge |-> 0]]

AttestInit ==
    /\ g_attestation_initialized = FALSE
    /\ g_sequence_counter = 0
    /\ att_last = NoCycle
    /\ att_base = 0

\* a signing step that marks the record valid whether or not it was signed
SignMutantValidUnsigned(challenge, sign_ok, t) ==
    [ret |-> "SE_SUCCESS", challenge |-> challenge, response |-> sign_ok,
     timestamp |-> Seconds(t), is_valid |-> TRUE]

\* esp32_crypto_perform_attestation, reached through se_perform_attestation:
\* sign_ok says whether the digest and the ECDSA signature were produced
se_perform_attestation(challenge, sign_ok, t) ==
    IF sign_ok
    THEN [ret |-> "SE_SUCCESS", challenge |-> challenge, response |-> TRUE,
          timestamp |-> Seconds(t), is_valid |-> TRUE]
    ELSE [ret |-> "SE_ERROR", challenge |-> challenge, response |-> FALSE,
          timestamp |-> Seconds(t), is_valid |-> FALSE]

RespondMutantNoCopy(result, challenge, sign_ok, t) ==
    LET se == se_perform_attestation(challenge, sign_ok, t)
    IN  IF se.ret # "SE_SUCCESS"
        THEN [ret |-> "ESP_FAIL", result |-> result]
        ELSE [ret |-> "ESP_OK",
              result |-> [result EXCEPT
                            !.response = se.response,
                            !.timestamp = se.timestamp,
                            !.is_valid = se.is_valid,
                            !.status = IF se.is_valid THEN "ATTESTATION_SUCCESS"
                                       ELSE "ATTESTATION_ERROR_SIGNATURE_FAILED"]]

\* attestation_respond_to_challenge(challenge, 32, &result)
attestation_respond_to_challenge(result, challenge, sign_ok, t) ==
    LET copied == [result EXCEPT !.challenge = challenge]
        se == se_perform_attestation(challenge, sign_ok, t)
    IN  IF se.ret # "SE_SUCCESS"
        THEN [ret |-> "ESP_FAIL", result |-> copied]
        ELSE [ret |-> "ESP_OK",
              result |-> [copied EXCEPT
                            !.response = se.response,
                            !.timestamp = se.timestamp,
                            !.is_valid = se.is_valid,
                            !.status = IF se.is_valid THEN "ATTESTATION_SUCCESS"
                                       ELSE "ATTESTATION_ERROR_SIGNATURE_FAILED"]]

\* attestation_manager_init; verifier_ok: remote_verifier_init returned ESP_OK
AttestationManagerInit(verifier_ok) ==
    /\ IF g_attestation_initialized \/ ~verifier_ok
       THEN UNCHANGED << g_attestation_initialized, g_sequence_counter, att_base >>
       ELSE /\ g_attestation_initialized' = TRUE
            /\ g_sequence_counter' = 0
            /\ att_base' = 0
    /\ UNCHANGED att_last

\* attestation_manager_deinit
AttestationManagerDeinit ==
    /\ g_attestation_initialized
    /\ g_attestation_initialized' = FALSE
    /\ UNCHANGED << g_sequence_counter, att_last, att_base >>

\* a sequence-number step that skips a value
SequenceMutantSkip(counter) == counter + 2

\* the sequence-number step of a successful cycle:
\* result.sequence_number = ++g_sequence_counter
NextSequence(counter) == counter + 1

\* attestation_perform_continuous: the returned record, the counter and the
\* chunk table after the call
PerformContinuousCall(challenge, random_ok, sign_ok, faults, mutex_ok, gsig) ==
    IF ~g_attestation_initialized \/ ~random_ok
    THEN [result |-> [ZeroAttestation EXCEPT !.status = "ATTESTATION_ERROR_COMMUNICATION"],
          counter |-> g_sequence_counter, chunks |-> g_chunks,
          random_ok |-> g_attestation_initialized /\ random_ok,
          signed |-> FALSE, integrity |-> "not_run"]
    ELSE
      LET r == attestation_respond_to_challenge(ZeroAttestation, challenge, sign_ok, now)
      IN  IF r.ret # "ESP_OK"
          THEN [result |-> [r.result EXCEPT !.status = "ATTESTATION_ERROR_SIGNATURE_FAILED"],
                counter |-> g_sequence_counter, chunks |-> g_chunks,
                random_ok |-> TRUE, signed |-> FALSE, integrity |-> "not_run"]
          ELSE
            LET c == integrity_check_firmware(Ctx(faults), g_chunks, mutex_ok, gsig)
            IN  IF c.status # "INTEGRITY_OK"
                THEN [result |-> [r.result EXCEPT
                                    !.status = "ATTESTATION_ERROR_SIGNATURE_FAILED"],
                      counter |-> g_sequence_counter, chunks |-> c.chunks,
                      random_ok |-> TRUE, signed |-> sign_ok, integrity |-> c.status]
                ELSE [result |-> [r.result EXCEPT
                                    !.sequence_number = NextSequence(g_sequence_counter),
                                    !.status = "ATTESTATION_SUCCESS",
                                    !.is_valid = TRUE],
                      counter |-> NextSequence(g_sequence_counter), chunks |-> c.chunks,
                      random_ok |-> TRUE, signed |-> sign_ok, integrity |-> c.status]

\* what a cycle leaves to look at: the record it returned, how far it came,
\* the value se_generate_random gave it when it was called and returned
\* SE_SUCCESS, the values given so far, and the cycle before it
CycleRecord(c, challenge) ==
    [called |-> TRUE, result |-> c.result,
     random_ok |-> c.random_ok, signed |-> c.signed,
     integrity |-> c.integrity, base |-> att_base,
     draw |-> IF c.random_ok THEN challenge ELSE 0,
     drawn |-> IF c.random_ok THEN att_last.drawn \cup {challenge} ELSE att_last.drawn,
     prev |-> [called |-> att_last.called,
               status |-> att_last.result.status,
               sequence_number |-> att_last.result.sequence_number,
               random_ok |-> att_last.random_ok,
               challenge |-> att_last.result.challenge]]

PerformContinuous(challenge, random_ok, sign_ok, faults, mutex_ok, gsig) ==
    /\ ops < MaxOps
    /\ ops' = ops + 1
    /\ LET c == PerformContinuousCall(challenge, random_ok, sign_ok, faults, mutex_ok, gsig)
       IN  /\ g_sequence_counter' = c.counter
           /\ g_chunks' = c.chunks
           /\ att_last' = CycleRecord(c, challenge)
           /\ att_base' = IF c.result.status = "ATTESTATION_SUCCESS"
                          THEN c.result.sequence_number ELSE att_base
    /\ integ_last' = [NoCall EXCEPT !.op = "attestation"]
    /\ UNCHANGED << g_attestation_initialized, g_integrity_initialized, g_config,
                    g_metadata, g_stats, g_integrity_mutex, g_runtime_check_task,
                    next_chunk_to_check, check_cycle, flash, ref_data, scan_log,
                    tampers, inits, now >>

AttestationFailed(result) ==
    /\ result.status # "ATTESTATION_SUCCESS"
    /\ ~result.is_valid

\* C1: when the integrity check run inside an attestation_perform_continuous
\* cycle returns a status other than INTEGRITY_OK, the returned record has a
\* failure status and its validity flag is false.
C1_IntegrityBoundAttestation ==
    (att_last.called /\ att_last.integrity \notin {"not_run", "INTEGRITY_OK"})
        => AttestationFailed(att_last.result)

\* a cycle whose integrity check did not return INTEGRITY_OK
C1_Witness ==
    /\ att_last.called
    /\ att_last.signed
    /\ att_last.integrity \notin {"not_run", "INTEGRITY_OK"}

\* C5 as stated: of every two consecutive attestation_perform_continuous
\* calls, the later record's sequence number is the earlier one's plus one.
C5_ConsecutiveSequence ==
    (att_last.prev.called /\ att_last.called)
        => att_last.result.sequence_number = att_last.prev.sequence_number + 1

\* C5: every successful attestation_perform_continuous call returns a sequence
\* number one greater than that of the latest earlier successful call since
\* the manager was initialised, and 1 when there is none; a failed call
\* returns sequence number 0.
C5_SuccessfulSequence ==
    att_last.called =>
        IF att_last.result.status = "ATTESTATION_SUCCESS"
        THEN att_last.result.sequence_number = att_last.base + 1
        ELSE att_last.result.sequence_number = 0

\* a failed cycle between two successful ones: the numbers 1 and 2 are given
\* to the successful cycles
C5_Witness ==
    /\ att_last.prev.called
    /\ att_last.prev.status # "ATTESTATION_SUCCESS"
    /\ att_last.result.status = "ATTESTATION_SUCCESS"
    /\ att_last.result.sequence_number = 2

\* C6: when the challenge generation or the signature fails in a cycle, the
\* returned record has a failure status and is not valid, also when the
\* challenge was already copied into it; a valid record was signed in the
\* cycle that returned it.
C6_NoValidRecordWithoutSignature ==
    att_last.called =>
        /\ (~att_last.random_ok \/ ~att_last.signed) => AttestationFailed(att_last.result)
        /\ att_last.result.is_valid => att_last.signed

\* a cycle whose signature failed after the challenge was copied
C6_Witness ==
    /\ att_last.called
    /\ att_last.random_ok
    /\ ~att_last.signed
    /\ att_last.result.challenge \in ChallengeValues
    /\ ~att_last.result.is_valid

\* C23: in an attestation_perform_continuous cycle the signer is invoked only
\* after the integrity check of the cycle returned INTEGRITY_OK: no cycle
\* whose integrity check failed, or was not run, has produced a signature.
C23_SignedOnlyAfterIntegrityOk ==
    (att_last.called /\ att_last.signed) => att_last.integrity = "INTEGRITY_OK"

\* a cycle that signed the challenge and then found a corrupted chunk
C23_Witness ==
    /\ att_last.called
    /\ att_last.signed
    /\ att_last.integrity = "INTEGRITY_ERROR_CORRUPTED"
    /\ att_last.result.status = "ATTESTATION_ERROR_SIGNATURE_FAILED"
    /\ att_last.result.challenge \in ChallengeValues

\* C24 as stated: with a random source that gives no value twice, the
\* challenges of the records returned by two consecutive
\* attestation_perform_continuous calls differ.
C24_ConsecutiveChallengesDiffer ==
    (att_last.prev.called /\ att_last.called)
        => att_last.result.challenge # att_last.prev.challenge

\* C24: the challenge of a returned record is the value se_generate_random
\* gave in the same call, and all-zero when the call returned before it had
\* a value (manager not initialised, or se_generate_random failed); with a
\* random source that gives no value twice, the challenges of two consecutive
\* calls that both had a value differ.
C24_ChallengeOfTheCall ==
    att_last.called =>
        /\ att_last.result.challenge = IF att_last.random_ok THEN att_last.draw ELSE 0
        /\ (att_last.random_ok /\ att_last.prev.called /\ att_last.prev.random_ok)
              => att_last.result.challenge # att_last.prev.challenge

\* the third of three consecutive cycles that each had a value
C24_Witness ==
    /\ att_last.called
    /\ att_last.random_ok
    /\ att_last.prev.called
    /\ att_last.prev.random_ok
    /\ Cardinality(att_last.drawn) = 3
    /\ att_last.result.challenge = att_last.draw


(***************************************************************************)
(* Anomaly detector                                                        *)
(***************************************************************************)
\* number of sensor samples buffered in the history in one run
MaxSamples == 11
\* number of outlying samples among them
MaxExtreme == 1
\* number of clock steps in one run
MaxTicks == 1

ANOMALY_HISTORY_SIZE == 100
ANOMALY_WINDOW_SIZE == 10
ANOMALY_LEARNING_PERIOD_MS == 300000
\* ANOMALY_SCORE_THRESHOLD (0.8f), in tenths
ANOMALY_SCORE_THRESHOLD == 8
\* the 3 sigma of the score normalisation
SigmaBound == 3

\* one step of the microsecond clock
TickMicros == ANOMALY_LEARNING_PERIOD_MS * 1000

VARIABLES
    g_detector_initialized, g_context,
    \* the last anomaly_detect_sensor_data or anomaly_update_baseline call: its
    \* sample, its result, and the detector as the call found it
    anom_last,
    \* time of the latest effective anomaly_detector_init
    detector_init_time,
    ticks

anomVars == << g_detector_initialized, g_context, anom_last, detector_init_time, ticks >>

\* sensor values in degrees Celsius and percent; floating-point statistics are
\* computed exactly over these integers
NormalTemperature == { 23 }
ExtremeTemperature == { 26 }
HumidityValues == { 50 }

HistoryIndex == 0..(ANOMALY_HISTORY_SIZE - 1)

ZeroContext ==
    [sensor_data |-> [i \in HistoryIndex |-> << 0, 0 >>],
     write_index |-> 0, sample_count |-> 0,
     is_learning |-> FALSE, learning_start_time |-> 0]

\* anomaly_result_t result = {0}; zsq is the squared z-score num/den the
\* score is computed from, anomaly_score the square of the score
\* (score = min(sqrt(num/den) / 3, 1)) as a fraction
ZeroResult ==
    [is_anomaly |-> FALSE, type |-> "ANOMALY_TYPE_NONE", zsq |-> << 0, 1 >>,
     anomaly_score |-> << 0, 1 >>,
     severity |-> 0, timestamp |-> 0]

NoDetect ==
    [op |-> "none", temperature |-> 0, humidity |-> 0, is_valid |-> FALSE,
     result |-> ZeroResult, initialized |-> FALSE, was_learning |-> FALSE,
     learning_time_elapsed |-> FALSE, since_init_elapsed |-> FALSE, sample_count |-> 0]

AnomInit ==
    /\ g_detector_initialized = FALSE
    /\ g_context = ZeroContext
    /\ anom_last = NoDetect
    /\ detector_init_time = 0
    /\ ticks = 0

BaselineMutantRelearn(ctx, data) ==
    [ctx EXCEPT
       !.sensor_data[ctx.write_index] = << data.temperature, data.humidity >>,
       !.write_index = (ctx.write_index + 1) % ANOMALY_HISTORY_SIZE,
       !.sample_count = IF ctx.sample_count < ANOMALY_HISTORY_SIZE
                        THEN ctx.sample_count + 1 ELSE ctx.sample_count,
       !.is_learning = TRUE]

BaselineMutantNoWrap(ctx, data) ==
    [ctx EXCEPT
       !.sensor_data[ctx.write_index % ANOMALY_HISTORY_SIZE] = << data.temperature, data.humidity >>,
       !.write_index = ctx.write_index + 1,
       !.sample_count = ctx.sample_count + 1]

\* anomaly_update_baseline on an initialised detector with a valid sample
anomaly_update_baseline(ctx, data) ==
    [ctx EXCEPT
       !.sensor_data[ctx.write_index] = << data.temperature, data.humidity >>,
       !.write_index = (ctx.write_index + 1) % ANOMALY_HISTORY_SIZE,
       !.sample_count = IF ctx.sample_count < ANOMALY_HISTORY_SIZE
                        THEN ctx.sample_count + 1 ELSE ctx.sample_count]

RECURSIVE SumField(_, _, _)
SumField(data, field, count) ==
    IF count = 0 THEN 0
    ELSE data[count - 1][field] + SumField(data, field, count - 1)

RECURSIVE SumSquares(_, _, _)
SumSquares(data, field, count) ==
    IF count = 0 THEN 0
    ELSE data[count - 1][field] * data[count - 1][field] + SumSquares(data, field, count - 1)

\* calculate_statistics followed by calculate_zscore, squared and exact:
\* with S the sum and Q the sum of squares of the count entries,
\* mean = S/count, variance = (count*Q - S*S) / (count*(count-1)), and
\* z^2 = (count*value - S)^2 * (count-1) / (count * (count*Q - S*S));
\* zero when the standard deviation is zero
calculate_zscore(value, data, field, count) ==
    LET S == SumField(data, field, count)
        Q == SumSquares(data, field, count)
        spread == count * Q - S * S
    IN  IF count <= 1 \/ spread = 0 THEN << 0, 1 >>
        ELSE << (count * value - S) * (count * value - S) * (count - 1), count * spread >>

\* fmaxf over two squared z-scores
MaxZ(a, b) == IF a[1] * b[2] >= b[1] * a[2] THEN a ELSE b

NormalizeMutantNoClamp(zsq) == << zsq[1], SigmaBound * SigmaBound * zsq[2] >>

\* anomaly_score = fminf(max_zscore / 3.0f, 1.0f), squared
NormalizeScore(zsq) ==
    IF zsq[1] >= SigmaBound * SigmaBound * zsq[2]
    THEN << 1, 1 >>
    ELSE << zsq[1], SigmaBound * SigmaBound * zsq[2] >>

\* anomaly_score > tenths / 10
ScoreAbove(zsq, tenths) ==
    LET score == NormalizeScore(zsq)
    IN  100 * score[1] > tenths * tenths * score[2]

SeverityMutantBandsForAll(is_anomaly, zsq) ==
    IF ScoreAbove(zsq, 9) THEN 4
    ELSE IF ScoreAbove(zsq, 7) THEN 3
    ELSE IF ScoreAbove(zsq, 5) THEN 2
    ELSE 1

\* result.severity: left at 0 unless is_anomaly, else 4 (critical), 3 (high),
\* 2 (medium) or 1 (low) by the score
SeverityOf(is_anomaly, zsq) ==
    IF ~is_anomaly THEN 0
    ELSE IF ScoreAbove(zsq, 9) THEN 4
    ELSE IF ScoreAbove(zsq, 7) THEN 3
    ELSE IF ScoreAbove(zsq, 5) THEN 2
    ELSE 1

\* the learning gate of anomaly_detect_sensor_data
LearningMutantNoGate(ctx, t) == FALSE

StillLearning(ctx, t) ==
    t - ctx.learning_start_time < ANOMALY_LEARNING_PERIOD_MS * 1000

DetectMutantNoWindow(initialized, ctx, data, t) ==
    IF ~initialized \/ ~data.is_valid
    THEN [result |-> ZeroResult, ctx |-> ctx]
    ELSE
      LET updated == anomaly_update_baseline(ctx, data)
      IN  IF updated.is_learning /\ StillLearning(updated, t)
          THEN [result |-> ZeroResult, ctx |-> updated]
          ELSE
            LET active == [updated EXCEPT !.is_learning = FALSE]
                analysis_count == MIN(active.sample_count, ANOMALY_HISTORY_SIZE)
                temp_z == calculate_zscore(data.temperature, active.sensor_data, 1, analysis_count)
                humidity_z == calculate_zscore(data.humidity, active.sensor_data, 2, analysis_count)
                zsq == MaxZ(temp_z, humidity_z)
                is_anomaly == ScoreAbove(zsq, ANOMALY_SCORE_THRESHOLD)
            IN  [result |->
                   [is_anomaly |-> is_anomaly,
                    type |-> IF is_anomaly THEN "ANOMALY_TYPE_SENSOR_DATA"
                             ELSE "ANOMALY_TYPE_NONE",
                    zsq |-> zsq,
                    anomaly_score |-> NormalizeScore(zsq),
                    severity |-> SeverityOf(is_anomaly, zsq),
                    timestamp |-> data.timestamp],
                 ctx |-> active]

\* anomaly_detect_sensor_data: the result and the context after the call
anomaly_detect_sensor_data(initialized, ctx, data, t) ==
    IF ~initialized \/ ~data.is_valid
    THEN [result |-> ZeroResult, ctx |-> ctx]
    ELSE
      LET updated == anomaly_update_baseline(ctx, data)
      IN  IF updated.is_learning /\ StillLearning(updated, t)
          THEN [result |-> ZeroResult, ctx |-> updated]
          ELSE
            LET active == [updated EXCEPT !.is_learning = FALSE]
                analysis_count == MIN(active.sample_count, ANOMALY_HISTORY_SIZE)
                temp_z == calculate_zscore(data.temperature, active.sensor_data, 1, analysis_count)
                humidity_z == calculate_zscore(data.humidity, active.sensor_data, 2, analysis_count)
                zsq == MaxZ(temp_z, humidity_z)
                is_anomaly == ScoreAbove(zsq, ANOMALY_SCORE_THRESHOLD)
            IN  IF active.sample_count < ANOMALY_WINDOW_SIZE
                THEN [result |-> ZeroResult, ctx |-> active]
                ELSE [result |->
                        [is_anomaly |-> is_anomaly,
                         type |-> IF is_anomaly THEN "ANOMALY_TYPE_SENSOR_DATA"
                                  ELSE "ANOMALY_TYPE_NONE",
                         zsq |-> zsq,
                         anomaly_score |-> NormalizeScore(zsq),
                         severity |-> SeverityOf(is_anomaly, zsq),
                         timestamp |-> data.timestamp],
                      ctx |-> active]


\* anomaly_detector_init
AnomalyDetectorInit ==
    /\ ~g_detector_initialized
    /\ g_detector_initialized' = TRUE
    /\ g_context' = [ZeroContext EXCEPT !.is_learning = TRUE,
                                        !.learning_start_time = now]
    /\ detector_init_time' = now
    /\ UNCHANGED << anom_last, ticks, now >>

\* anomaly_detector_deinit
AnomalyDetectorDeinit ==
    /\ g_detector_initialized
    /\ g_detector_initialized' = FALSE
    /\ UNCHANGED << g_context, anom_last, detector_init_time, ticks, now >>

\* anomaly_set_learning_mode(enable) on an initialised detector
AnomalySetLearningMode(enable) ==
    /\ g_detector_initialized
    /\ g_context' = [g_context EXCEPT
                       !.is_learning = enable,
                       !.learning_start_time = IF enable THEN now ELSE @]
    /\ UNCHANGED << g_detector_initialized, anom_last, detector_init_time,
                    ticks, now >>

\* the outlying samples in the history
Extremes(ctx) ==
    Cardinality({ i \in 0..(MaxSamples - 1) : ctx.sensor_data[i][1] \in ExtremeTemperature })

\* the samples the sensor delivers: the history takes MaxSamples samples, at
\* most MaxExtreme outlying ones among them
SensorSamples ==
    { [temperature |-> temp, humidity |-> h, timestamp |-> Seconds(now), is_valid |-> v] :
        temp \in NormalTemperature \cup
                 (IF Extremes(g_context) < MaxExtreme THEN ExtremeTemperature ELSE {}),
        h \in HumidityValues, v \in BOOLEAN }

\* temperatures in half degrees Celsius (46 is 23.0, 52 is 26.0), for
\* histories of mean 23.0 and standard deviation 0.5; the z-score does not
\* depend on the unit
ScoringTemperature == { 45, 46, 47, 52 }

\* the samples of a sensor whose temperature does not fall: valid samples, none
\* below the latest buffered one
ScoringSamples ==
    { [temperature |-> temp, humidity |-> h, timestamp |-> Seconds(now), is_valid |-> TRUE] :
        temp \in { v \in ScoringTemperature :
                     g_context.sample_count > 0 =>
                        v >= g_context.sensor_data[g_context.sample_count - 1][1] },
        h \in HumidityValues }

\* the temperatures of a sensor followed until the history has wrapped
LongRunTemperature == { 20, 30 }

\* the samples of that sensor: one temperature until the history is full,
\* the other from then on
LongRunSamples ==
    { [temperature |-> temp, humidity |-> h, timestamp |-> Seconds(now), is_valid |-> v] :
        temp \in { IF g_context.sample_count < ANOMALY_HISTORY_SIZE THEN 20 ELSE 30 },
        h \in HumidityValues, v \in BOOLEAN }

CountSample(data) ==
    (g_detector_initialized /\ data.is_valid /\ data.temperature \notin LongRunTemperature)
        => g_context.sample_count < MaxSamples

Elapsed(since) == ~(now - since < ANOMALY_LEARNING_PERIOD_MS * 1000)

SampleCall(op, data, result, ctx) ==
    [op |-> op, temperature |-> data.temperature, humidity |-> data.humidity,
     is_valid |-> data.is_valid, result |-> result,
     initialized |-> g_detector_initialized,
     was_learning |-> g_context.is_learning,
     learning_time_elapsed |-> Elapsed(g_context.learning_start_time),
     since_init_elapsed |-> Elapsed(detector_init_time),
     sample_count |-> ctx.sample_count]

\* a call of anomaly_detect_sensor_data(&data)
AnomalyDetect(data) ==
    /\ CountSample(data)
    /\ LET d == anomaly_detect_sensor_data(g_detector_initialized, g_context, data, now)
       IN  /\ g_context' = d.ctx
           /\ anom_last' = SampleCall("detect", data, d.result, d.ctx)
    /\ UNCHANGED << g_detector_initialized, detector_init_time, ticks, now >>

UpdateBaselineMutantTakesInvalid(data) ==
    /\ CountSample(data)
    /\ LET ctx == IF g_detector_initialized
                  THEN anomaly_update_baseline(g_context, data) ELSE g_context
       IN  /\ g_context' = ctx
           /\ anom_last' = SampleCall("update_baseline", data, ZeroResult, ctx)
    /\ UNCHANGED << g_detector_initialized, detector_init_time, ticks, now >>

\* a call of anomaly_update_baseline(&data)
AnomalyUpdateBaseline(data) ==
    /\ CountSample(data)
    /\ LET ctx == IF g_detector_initialized /\ data.is_valid
                  THEN anomaly_update_baseline(g_context, data) ELSE g_context
       IN  /\ g_context' = ctx
           /\ anom_last' = SampleCall("update_baseline", data, ZeroResult, ctx)
    /\ UNCHANGED << g_detector_initialized, detector_init_time, ticks, now >>

\* esp_timer_get_time advances
Tick ==
    /\ ticks < MaxTicks
    /\ ticks' = ticks + 1
    /\ now' = now + TickMicros
    /\ UNCHANGED << g_detector_initialized, g_context, anom_last, detector_init_time >>

NoAnomaly(result) ==
    /\ ~result.is_anomaly
    /\ result.type = "ANOMALY_TYPE_NONE"

\* C8 as stated: every sample submitted before the learning duration has
\* elapsed since the detector was initialised gets "no anomaly".
C8_GateSinceInit ==
    (anom_last.op = "detect" /\ anom_last.initialized /\ ~anom_last.since_init_elapsed)
        => NoAnomaly(anom_last.result)

\* C8: every sample submitted while the detector is in learning mode and
\* before the learning duration has elapsed since learning last began (at
\* anomaly_detector_init or anomaly_set_learning_mode(true)) gets "no
\* anomaly", whatever its values and however much history is buffered.
C8_LearningGate ==
    (anom_last.op = "detect" /\ anom_last.initialized /\ anom_last.was_learning
       /\ ~anom_last.learning_time_elapsed)
        => NoAnomaly(anom_last.result)

\* an outlying sample on a full window of history, submitted while learning
C8_Witness ==
    /\ anom_last.op = "detect"
    /\ anom_last.initialized
    /\ anom_last.was_learning
    /\ ~anom_last.learning_time_elapsed
    /\ anom_last.is_valid
    /\ anom_last.temperature \in ExtremeTemperature
    /\ anom_last.sample_count >= ANOMALY_WINDOW_SIZE
    /\ NoAnomaly(anom_last.result)

\* the last call was the anomaly_detect_sensor_data call that found the
\* learning period over and left learning mode
LeftLearning ==
    /\ anom_last.op = "detect"
    /\ anom_last.initialized
    /\ anom_last.is_valid
    /\ anom_last.was_learning
    /\ anom_last.learning_time_elapsed

\* C28 as stated: once the learning period is over and the detector has
\* left learning mode, it never is in learning mode again.
C28_NeverLearningAgain ==
    [][ (LeftLearning /\ g_detector_initialized /\ ~g_context.is_learning)
            => ~g_context'.is_learning ]_anomVars

\* C28: no sample submitted (anomaly_detect_sensor_data,
\* anomaly_update_baseline) returns a detector that has left learning mode
\* to it; the detector is in learning mode again only by
\* anomaly_set_learning_mode(true) or by anomaly_detector_init after a
\* deinit, and the learning period then starts anew at that time.
C28_LearningOnlyOnRequest ==
    [][ (~g_context.is_learning /\ g_context'.is_learning)
            => /\ anom_last' = anom_last
               /\ g_detector_initialized'
               /\ g_context'.learning_start_time = now
      ]_anomVars

\* learning mode switched on again after a sample found the learning period
\* over
C28_Witness ==
    /\ LeftLearning
    /\ g_detector_initialized
    /\ g_context.is_learning
    /\ g_context.sample_count > 0
    /\ g_context.learning_start_time = now
    /\ ticks > 0

\* the detector was not, or no longer, in learning mode when the call decided
ActiveCall ==
    /\ anom_last.op = "detect"
    /\ anom_last.initialized
    /\ anom_last.is_valid
    /\ ~anom_last.was_learning \/ anom_last.learning_time_elapsed

Scored == ActiveCall /\ anom_last.sample_count >= ANOMALY_WINDOW_SIZE

\* C30: the anomaly score of every scored sample lies between 0 and 1, and
\* is_anomaly is true exactly when the score is greater than
\* ANOMALY_SCORE_THRESHOLD (0.8), not when it equals it.
C30_ScoreRange ==
    Scored =>
        LET score == anom_last.result.anomaly_score
        IN  /\ score[2] > 0
            /\ score[1] >= 0
            /\ score[1] <= score[2]
            /\ anom_last.result.is_anomaly
                  <=> (100 * score[1]
                         > ANOMALY_SCORE_THRESHOLD * ANOMALY_SCORE_THRESHOLD * score[2])

\* a sample more than 3 standard deviations from the mean: its score is cut
\* to 1 and it is an anomaly
C30_Witness ==
    /\ Scored
    /\ anom_last.result.zsq[1] > SigmaBound * SigmaBound * anom_last.result.zsq[2]
    /\ anom_last.result.anomaly_score = << 1, 1 >>
    /\ anom_last.result.is_anomaly

\* the severity of the score's band: 4 critical, 3 high, 2 medium, 1 low
Band(score) ==
    IF 100 * score[1] > 81 * score[2] THEN 4
    ELSE IF 100 * score[1] > 49 * score[2] THEN 3
    ELSE IF 100 * score[1] > 25 * score[2] THEN 2
    ELSE 1

\* C31 as stated: the severity reported for every scored sample is the one of
\* its score's band: critical above 0.9, high above 0.7, medium above 0.5,
\* low otherwise.
C31_SeverityByBand ==
    Scored => anom_last.result.severity = Band(anom_last.result.anomaly_score)

\* C31: the severity reported for a scored sample that is an anomaly (score
\* above 0.8) is critical when the score is above 0.9 and high otherwise; a
\* scored sample that is not an anomaly is reported with severity 0, whatever
\* its band, so medium and low are never reported.
C31_SeverityOfAnomalies ==
    Scored =>
        /\ anom_last.result.severity =
              IF anom_last.result.is_anomaly
              THEN Band(anom_last.result.anomaly_score)
              ELSE 0
        /\ anom_last.result.severity \in {0, 3, 4}

\* an anomaly with a score between 0.8 and 0.9, reported high
C31_Witness ==
    /\ Scored
    /\ anom_last.result.is_anomaly
    /\ anom_last.result.severity = 3
    /\ 100 * anom_last.result.anomaly_score[1] <= 81 * anom_last.result.anomaly_score[2]

\* the history the last call found, before it appended its sample: the
\* number of its samples, their sum and the sum of their squares
PriorCount == anom_last.sample_count - 1
PriorSum == SumField(g_context.sensor_data, 1, PriorCount)
PriorSquares == SumSquares(g_context.sensor_data, 1, PriorCount)

\* the last call found a history of temperature mean 23.0 and sample
\* standard deviation 0.5 and its sample was 26.0
HistoryOfTheExample ==
    /\ Scored
    /\ g_context.sample_count = anom_last.sample_count
    /\ anom_last.sample_count < ANOMALY_HISTORY_SIZE
    /\ PriorSum = 46 * PriorCount
    /\ PriorCount * PriorSquares - PriorSum * PriorSum = PriorCount * (PriorCount - 1)
    /\ anom_last.temperature = 52

\* C32: a sample is scored against the mean and the standard deviation of the
\* history buffered before it: on a history of temperature mean 23.0 and
\* standard deviation 0.5 a sample of 26.0 has z = 6.0, score 1.0, severity
\* critical and is an anomaly.
C32_ScoredAgainstHistory ==
    HistoryOfTheExample =>
        /\ anom_last.result.zsq[1] = 36 * anom_last.result.zsq[2]
        /\ anom_last.result.anomaly_score = << 1, 1 >>
        /\ anom_last.result.severity = 4
        /\ anom_last.result.is_anomaly

\* the sample of 26.0 on nine samples of mean 23.0 and standard deviation
\* 0.5: scored with itself in the statistics, its z-score is below 3 and its
\* severity high
C32_Witness ==
    /\ HistoryOfTheExample
    /\ PriorCount = ANOMALY_WINDOW_SIZE - 1
    /\ anom_last.result.zsq[1] < SigmaBound * SigmaBound * anom_last.result.zsq[2]
    /\ anom_last.result.severity = 3

\* C33: a call of anomaly_detect_sensor_data or anomaly_update_baseline with
\* a sample whose is_valid flag is false leaves the history as it was (the
\* buffered samples, write_index and sample_count, and the learning state
\* with them), and its result is "no anomaly".
C33_InvalidSampleIgnored ==
    [][ (/\ anom_last' # anom_last
         /\ anom_last'.op \in {"detect", "update_baseline"}
         /\ ~anom_last'.is_valid)
            => /\ g_context' = g_context
               /\ NoAnomaly(anom_last'.result)
               /\ anom_last'.result = ZeroResult
      ]_anomVars

\* an invalid outlying sample submitted to an initialised detector that has
\* left learning mode with a full window of history
C33_Witness ==
    /\ anom_last.op = "detect"
    /\ anom_last.initialized
    /\ ~anom_last.is_valid
    /\ ~anom_last.was_learning
    /\ anom_last.temperature \in ExtremeTemperature
    /\ anom_last.sample_count >= ANOMALY_WINDOW_SIZE
    /\ g_context.sample_count = anom_last.sample_count

\* the fill counter and the write cursor of a history are within its capacity
WithinCapacity(ctx) ==
    /\ ctx.sample_count \in 0..ANOMALY_HISTORY_SIZE
    /\ ctx.write_index \in 0..(ANOMALY_HISTORY_SIZE - 1)
    /\ DOMAIN ctx.sensor_data = HistoryIndex

\* the step of a call on the initialised detector with a valid sample
ValidSampleStep ==
    /\ g_detector_initialized
    /\ g_detector_initialized'
    /\ anom_last'.op \in {"detect", "update_baseline"}
    /\ anom_last'.is_valid
    /\ (anom_last' # anom_last \/ g_context' # g_context)

\* C40: the history never exceeds its capacity of 100: the fill counter stays
\* in 0..100 and the write cursor in 0..99; every valid sample is written at
\* the cursor, leaves every other entry as it was, advances the cursor by one
\* modulo 100 and the fill counter by one up to 100, so that on a full
\* history it replaces the entry written 100 samples earlier.
C40_HistoryWithinCapacity ==
    [][ /\ WithinCapacity(g_context) /\ WithinCapacity(g_context')
        /\ ValidSampleStep =>
              /\ g_context'.write_index = (g_context.write_index + 1) % ANOMALY_HISTORY_SIZE
              /\ g_context'.sample_count
                    = MIN(g_context.sample_count + 1, ANOMALY_HISTORY_SIZE)
              /\ g_context'.sensor_data[g_context.write_index]
                    = << anom_last'.temperature, anom_last'.humidity >>
              /\ \A i \in HistoryIndex \ { g_context.write_index } :
                    g_context'.sensor_data[i] = g_context.sensor_data[i]
      ]_anomVars

\* the history is full and has wrapped: the first sample taken on the full
\* history has replaced the oldest entry, in slot 0, and the cursor is at 1
C40_Witness ==
    /\ g_detector_initialized
    /\ g_context.sample_count = ANOMALY_HISTORY_SIZE
    /\ g_context.write_index = 1
    /\ g_context.sensor_data[0][1] = 30
    /\ \A i \in HistoryIndex \ { 0 } : g_context.sensor_data[i][1] = 20
    /\ anom_last.is_valid
    /\ anom_last.temperature = 30


(***************************************************************************)
(* Incident manager                                                        *)
(***************************************************************************)
VARIABLES
    g_incident_initialized,
    \* the incident manager's g_stats
    g_incident_stats,
    \* the last handler call and the one before it, each with the statistics
    \* before and after it; forgotten when the manager is (de)initialised,
    \* an initialisation leaving the statistics it found
    inc_last, inc_prev

incVars == << g_incident_initialized, g_incident_stats, inc_last, inc_prev >>

\* security_severity_t
SECURITY_SEVERITY_INFO == 1
SECURITY_SEVERITY_LOW == 2
SECURITY_SEVERITY_MEDIUM == 3
SECURITY_SEVERITY_HIGH == 4
SECURITY_SEVERITY_CRITICAL == 5
Severities == SECURITY_SEVERITY_INFO..SECURITY_SEVERITY_CRITICAL

\* the event types that have a handler in the incident manager
HandledTypes ==
    {"SECURITY_EVENT_INTEGRITY_FAILURE", "SECURITY_EVENT_ANOMALY_DETECTED",
     "SECURITY_EVENT_ATTESTATION_FAILURE", "SECURITY_EVENT_UNAUTHORIZED_ACCESS"}

ZeroIncidentStats ==
    [total_incidents |-> 0, critical_incidents |-> 0, resolved_incidents |-> 0,
     active_incidents |-> 0, last_incident_time |-> 0, integrity_failures |-> 0,
     anomaly_detections |-> 0, attestation_failures |-> 0]

NoHandling ==
    [handled |-> FALSE, event |-> [type |-> "SECURITY_EVENT_NONE", severity |-> 0, data |-> <<>>],
     ret |-> "ESP_OK", before |-> ZeroIncidentStats, after |-> ZeroIncidentStats,
     escalation |-> "none", restart |-> FALSE]

IncInit ==
    /\ g_incident_initialized = FALSE
    /\ g_incident_stats = ZeroIncidentStats
    /\ inc_last = NoHandling
    /\ inc_prev = NoHandling

Refused(stats) ==
    [ret |-> "ESP_ERR_INVALID_ARG", stats |-> stats, escalation |-> "none", restart |-> FALSE]

IntegrityFailureMutantRestarts(initialized, stats, event, t) ==
    IF ~initialized THEN Refused(stats)
    ELSE [ret |-> "ESP_OK",
          stats |-> [stats EXCEPT !.total_incidents = @ + 1,
                                  !.critical_incidents = @ + 1,
                                  !.integrity_failures = @ + 1,
                                  !.active_incidents = @ + 1,
                                  !.last_incident_time = t],
          escalation |-> IF event.severity >= SECURITY_SEVERITY_CRITICAL
                         THEN "emergency_state" ELSE "none",
          restart |-> event.severity >= SECURITY_SEVERITY_CRITICAL]

IntegrityFailureMutantNoThreshold(initialized, stats, event, t) ==
    IF ~initialized THEN Refused(stats)
    ELSE [ret |-> "ESP_OK",
          stats |-> [stats EXCEPT !.total_incidents = @ + 1,
                                  !.critical_incidents = @ + 1,
                                  !.integrity_failures = @ + 1,
                                  !.active_incidents = @ + 1,
                                  !.last_incident_time = t],
          escalation |-> "emergency_state",
          restart |-> FALSE]

\* incident_handle_integrity_failure(&event)
incident_handle_integrity_failure(initialized, stats, event, t) ==
    IF ~initialized THEN Refused(stats)
    ELSE [ret |-> "ESP_OK",
          stats |-> [stats EXCEPT !.total_incidents = @ + 1,
                                  !.critical_incidents = @ + 1,
                                  !.integrity_failures = @ + 1,
                                  !.active_incidents = @ + 1,
                                  !.last_incident_time = t],
          escalation |-> IF event.severity >= SECURITY_SEVERITY_CRITICAL
                         THEN "emergency_state" ELSE "none",
          restart |-> FALSE]

AnomalyMutantNoCategory(initialized, stats, event, t) ==
    IF ~initialized THEN Refused(stats)
    ELSE [ret |-> "ESP_OK",
          stats |-> [stats EXCEPT !.total_incidents = @ + 1,
                                  !.active_incidents = @ + 1,
                                  !.last_incident_time = t],
          escalation |-> "none", restart |-> FALSE]

\* incident_handle_anomaly(&event)
incident_handle_anomaly(initialized, stats, event, t) ==
    IF ~initialized THEN Refused(stats)
    ELSE [ret |-> "ESP_OK",
          stats |-> [stats EXCEPT !.total_incidents = @ + 1,
                                  !.anomaly_detections = @ + 1,
                                  !.active_incidents = @ + 1,
                                  !.last_incident_time = t],
          escalation |-> "none", restart |-> FALSE]

\* incident_handle_attestation_failure(&event)
incident_handle_attestation_failure(initialized, stats, event, t) ==
    IF ~initialized THEN Refused(stats)
    ELSE [ret |-> "ESP_OK",
          stats |-> [stats EXCEPT !.total_incidents = @ + 1,
                                  !.attestation_failures = @ + 1,
                                  !.active_incidents = @ + 1,
                                  !.last_incident_time = t],
          escalation |-> "none", restart |-> FALSE]

\* incident_handle_unauthorized_access(&event)
incident_handle_unauthorized_access(initialized, stats, event, t) ==
    IF ~initialized THEN Refused(stats)
    ELSE [ret |-> "ESP_OK",
          stats |-> [stats EXCEPT !.total_incidents = @ + 1,
                                  !.critical_incidents = @ + 1,
                                  !.active_incidents = @ + 1,
                                  !.last_incident_time = t],
          escalation |-> "secure_mode", restart |-> FALSE]

\* the handler of the event's category
CategoryHandler(initialized, stats, event, t) ==
    CASE event.type = "SECURITY_EVENT_INTEGRITY_FAILURE" ->
            incident_handle_integrity_failure(initialized, stats, event, t)
      [] event.type = "SECURITY_EVENT_ANOMALY_DETECTED" ->
            incident_handle_anomaly(initialized, stats, event, t)
      [] event.type = "SECURITY_EVENT_ATTESTATION_FAILURE" ->
            incident_handle_attestation_failure(initialized, stats, event, t)
      [] event.type = "SECURITY_EVENT_UNAUTHORIZED_ACCESS" ->
            incident_handle_unauthorized_access(initialized, stats, event, t)

\* incident_manager_init
IncidentManagerInit ==
    /\ ~g_incident_initialized
    /\ g_incident_initialized' = TRUE
    /\ g_incident_stats' = ZeroIncidentStats
    /\ inc_last' = [NoHandling EXCEPT !.before = g_incident_stats]
    /\ inc_prev' = NoHandling

\* incident_manager_deinit
IncidentManagerDeinit ==
    /\ g_incident_initialized
    /\ g_incident_initialized' = FALSE
    /\ inc_last' = NoHandling
    /\ inc_prev' = NoHandling
    /\ UNCHANGED g_incident_stats

Handling(event, h) ==
    [handled |-> TRUE, event |-> event, ret |-> h.ret, before |-> g_incident_stats,
     after |-> h.stats, escalation |-> h.escalation, restart |-> h.restart]

\* a call of the handler of the event's category
HandleIncident(event) ==
    /\ ops < MaxOps
    /\ ops' = ops + 1
    /\ LET h == CategoryHandler(g_incident_initialized, g_incident_stats, event, now)
       IN  /\ g_incident_stats' = h.stats
           /\ inc_prev' = inc_last
           /\ inc_last' = Handling(event, h)
    /\ UNCHANGED g_incident_initialized

\* the counter of the event's category in the statistics; there is none for
\* unauthorized access
HasCategoryCounter(type) ==
    type \in {"SECURITY_EVENT_INTEGRITY_FAILURE", "SECURITY_EVENT_ANOMALY_DETECTED",
              "SECURITY_EVENT_ATTESTATION_FAILURE"}

CategoryCounter(stats, type) ==
    CASE type = "SECURITY_EVENT_INTEGRITY_FAILURE" -> stats.integrity_failures
      [] type = "SECURITY_EVENT_ANOMALY_DETECTED" -> stats.anomaly_detections
      [] type = "SECURITY_EVENT_ATTESTATION_FAILURE" -> stats.attestation_failures

\* the same event handled twice in a row by an initialised manager
HandledTwice ==
    /\ inc_prev.handled
    /\ inc_last.handled
    /\ inc_prev.event = inc_last.event
    /\ inc_prev.ret = "ESP_OK"
    /\ inc_last.ret = "ESP_OK"

\* C9 as stated: handling the same event twice raises the total-incident
\* counter and the counter of the event's category by exactly 2, for every
\* category that has a handler.
C9_EveryCategoryCounted ==
    HandledTwice =>
        /\ inc_last.after.total_incidents = inc_prev.before.total_incidents + 2
        /\ HasCategoryCounter(inc_last.event.type)
        /\ CategoryCounter(inc_last.after, inc_last.event.type)
              = CategoryCounter(inc_prev.before, inc_last.event.type) + 2

\* C9: handling the same event twice raises the total-incident counter by
\* exactly 2 (1 per handling); it raises the category counter by exactly 2 for
\* integrity failures, anomalies and attestation failures; unauthorized
\* access has no counter of its own and raises the critical-incident counter
\* by 2 instead.
C9_HandledTwiceCounted ==
    HandledTwice =>
        /\ inc_last.before = inc_prev.after
        /\ inc_prev.after.total_incidents = inc_prev.before.total_incidents + 1
        /\ inc_last.after.total_incidents = inc_prev.before.total_incidents + 2
        /\ IF HasCategoryCounter(inc_last.event.type)
           THEN CategoryCounter(inc_last.after, inc_last.event.type)
                   = CategoryCounter(inc_prev.before, inc_last.event.type) + 2
           ELSE /\ inc_last.after.critical_incidents
                      = inc_prev.before.critical_incidents + 2
                /\ inc_last.after.integrity_failures = inc_prev.before.integrity_failures
                /\ inc_last.after.anomaly_detections = inc_prev.before.anomaly_detections
                /\ inc_last.after.attestation_failures = inc_prev.before.attestation_failures

\* an anomaly event handled twice in a row
C9_Witness ==
    /\ HandledTwice
    /\ inc_last.event.type = "SECURITY_EVENT_ANOMALY_DETECTED"
    /\ inc_last.after.anomaly_detections = inc_prev.before.anomaly_detections + 2

\* C25: an escalation is performed once for an event: when the same event is
\* handled a second time, the second handling performs no escalation action.
C25_EscalationOneShot ==
    (HandledTwice /\ inc_prev.escalation # "none") => inc_last.escalation = "none"

\* a critical integrity-failure event handled twice in a row, the emergency
\* state stored by each handling
C25_Witness ==
    /\ HandledTwice
    /\ inc_last.event.type = "SECURITY_EVENT_INTEGRITY_FAILURE"
    /\ inc_last.event.severity = SECURITY_SEVERITY_CRITICAL
    /\ inc_prev.escalation = "emergency_state"
    /\ inc_last.escalation = "emergency_state"

\* a handling that was not refused
Handled == inc_last.handled /\ inc_last.ret = "ESP_OK"

\* C26 as stated: a handler performs its escalation action only for an event
\* whose severity is above the threshold, which is to be of severity
\* critical; for other events it updates the counters and the last-incident
\* time only.
C26_EscalatesOnlyAboveThreshold ==
    (Handled /\ inc_last.escalation # "none")
        => inc_last.event.severity >= SECURITY_SEVERITY_CRITICAL

\* C26: the integrity-failure handler stores the emergency state exactly for
\* events of severity critical; the unauthorized-access handler enables the
\* secure mode for events of every severity; the anomaly and the
\* attestation-failure handlers perform no escalation action; no handler
\* restarts the device, and every handling sets the last-incident time.
C26_EscalationBySeverity ==
    Handled =>
        /\ inc_last.escalation =
              CASE inc_last.event.type = "SECURITY_EVENT_INTEGRITY_FAILURE" ->
                      IF inc_last.event.severity >= SECURITY_SEVERITY_CRITICAL
                      THEN "emergency_state" ELSE "none"
                [] inc_last.event.type = "SECURITY_EVENT_UNAUTHORIZED_ACCESS" -> "secure_mode"
                [] OTHER -> "none"
        /\ ~inc_last.restart
        /\ inc_last.after.total_incidents = inc_last.before.total_incidents + 1
        /\ inc_last.after.active_incidents = inc_last.before.active_incidents + 1

\* an integrity-failure event of severity high handled after a critical one:
\* the emergency state stored for the critical one only
C26_Witness ==
    /\ Handled
    /\ inc_prev.handled
    /\ inc_prev.event.type = "SECURITY_EVENT_INTEGRITY_FAILURE"
    /\ inc_prev.event.severity = SECURITY_SEVERITY_CRITICAL
    /\ inc_prev.escalation = "emergency_state"
    /\ inc_last.event.type = "SECURITY_EVENT_INTEGRITY_FAILURE"
    /\ inc_last.event.severity = SECURITY_SEVERITY_HIGH
    /\ inc_last.escalation = "none"

\* the counters of incident_stats_t
IncidentCounters ==
    {"total_incidents", "critical_incidents", "resolved_incidents", "active_incidents",
     "integrity_failures", "anomaly_detections", "attestation_failures"}

\* C27: no operation of the incident manager (a handler, incident_manager_init,
\* incident_manager_deinit) lowers a counter of the statistics.
C27_CountersNeverDecrease ==
    [][ \A c \in IncidentCounters : g_incident_stats'[c] >= g_incident_stats[c] ]_incVars

\* the manager initialised again after incidents were counted: the
\* statistics it found are gone
C27_Witness ==
    /\ g_incident_initialized
    /\ ~inc_last.handled
    /\ inc_last.before.total_incidents > 0
    /\ g_incident_stats = ZeroIncidentStats


(***************************************************************************)
(* main.c: boot, the tasks, the timer callbacks and the panic handler      *)
(***************************************************************************)
\* number of heartbeat timer periods in one run
MaxBeats == 1
\* number of attestation_task iterations made while the attestation manager
\* is not initialised
MaxRefused == 21

SECURITY_EVENT_QUEUE_SIZE == 20
SENSOR_DATA_QUEUE_SIZE == 10
\* the monitor task checks the crypto health every 100 iterations
CryptoCheckEvery == 100

VARIABLES
    \* app_main has returned after both initialisations succeeded
    boot_completed,
    \* "none", or the place that called esp_restart
    restart_cause,
    security_event_queue,
    \* number of samples waiting in sensor_data_queue
    sensor_data_queue,
    \* "none" while security_monitor_task_handle is NULL, else the task state
    security_monitor_task_state,
    crypto_check_counter, heartbeat_counter,
    \* the event a task is blocked on in xQueueSend(..., portMAX_DELAY)
    blocked,
    \* the last iteration of security_monitor_task that received an event: the
    \* event, the queue before and after it, and what the switch called
    mon_last,
    \* iterations of attestation_task made while the attestation manager was
    \* not initialised
    att_refused

mainVars == << boot_completed, restart_cause, security_event_queue, sensor_data_queue,
               security_monitor_task_state, crypto_check_counter, heartbeat_counter,
               blocked, mon_last, att_refused >>

\* a security_event_t: its type, its severity and what is copied into its
\* data field (a status, or the status or type of the result copied)
NoEvent == [type |-> "SECURITY_EVENT_NONE", severity |-> 0, data |-> <<>>]
NoReceive ==
    [received |-> FALSE, event |-> NoEvent, queue_before |-> << >>,
     queue_after |-> << >>, handlers |-> << >>, response |-> "none"]
BlockingTasks == {"sensor_task", "attestation_task"}

MainInit ==
    /\ boot_completed = FALSE
    /\ restart_cause = "none"
    /\ security_event_queue = << >>
    /\ sensor_data_queue = 0
    /\ security_monitor_task_state = "none"
    /\ crypto_check_counter = 0
    /\ heartbeat_counter = 0
    /\ blocked = [task \in BlockingTasks |-> NoEvent]
    /\ mon_last = NoReceive
    /\ att_refused = 0

HasSpace(queue) == Len(queue) < SECURITY_EVENT_QUEUE_SIZE

\* xQueueSend(security_event_queue, &event, 0): the event is dropped when the
\* queue is full
SendNonBlocking(queue, event) == IF HasSpace(queue) THEN Append(queue, event) ELSE queue

\* xQueueSend(sensor_data_queue, &sensor_data, 0)
SendSensorData(count) == IF count < SENSOR_DATA_QUEUE_SIZE THEN count + 1 ELSE count

BootFaults == {"none", "platform", "crypto_init", "self_test", "verifier", "sensor_init", "tasks"}

\* where app_main stops for a boot fault and for the result of the initial
\* integrity check
BootStage(fault, integrity_status) ==
    CASE fault = "platform" -> "abort"
      [] fault \in {"crypto_init", "self_test"} -> "before_integrity"
      [] integrity_status # "INTEGRITY_OK" -> "integrity"
      [] fault = "verifier" -> "attestation"
      [] fault = "sensor_init" -> "sensor"
      [] fault = "tasks" -> "tasks"
      [] OTHER -> "done"

\* app_main, with init_security_system and init_tasks_and_timers
AppMain(fault, gsig) ==
    /\ ~boot_completed
    /\ ops < MaxOps
    /\ ops' = ops + 1
    /\ LET runs_check == fault \notin {"platform", "crypto_init", "self_test"}
           c == IF runs_check
                THEN integrity_check_firmware(Ctx(NoFaults), g_chunks, TRUE, gsig)
                ELSE [status |-> "not_run", chunks |-> g_chunks]
           stage == BootStage(fault, c.status)
           past_attestation == stage \in {"sensor", "tasks", "done"}
           past_sensor == stage \in {"tasks", "done"}
       IN  /\ g_chunks' = c.chunks
           /\ integ_last' = [NoCall EXCEPT !.op = "app_main"]
           /\ IF past_attestation /\ ~g_attestation_initialized
              THEN /\ g_attestation_initialized' = TRUE
                   /\ g_sequence_counter' = 0
                   /\ att_base' = 0
              ELSE UNCHANGED << g_attestation_initialized, g_sequence_counter, att_base >>
           /\ IF past_sensor /\ ~g_detector_initialized
              THEN /\ g_detector_initialized' = TRUE
                   /\ g_context' = [ZeroContext EXCEPT !.is_learning = TRUE,
                                                       !.learning_start_time = now]
                   /\ detector_init_time' = now
              ELSE UNCHANGED << g_detector_initialized, g_context, detector_init_time >>
           /\ IF past_sensor /\ ~g_incident_initialized
              THEN /\ g_incident_initialized' = TRUE
                   /\ g_incident_stats' = ZeroIncidentStats
                   /\ inc_last' = NoHandling
                   /\ inc_prev' = NoHandling
              ELSE UNCHANGED incVars
           /\ IF stage = "done"
              THEN /\ boot_completed' = TRUE
                   /\ security_monitor_task_state' = "running"
                   /\ restart_cause' = "none"
              ELSE /\ boot_completed' = FALSE
                   /\ UNCHANGED security_monitor_task_state
                   /\ restart_cause' = IF stage = "abort" THEN "boot_abort" ELSE "boot_failure"
    /\ UNCHANGED << g_integrity_initialized, g_config, g_metadata, g_stats,
                    g_integrity_mutex, g_runtime_check_task, next_chunk_to_check,
                    check_cycle, flash, ref_data, scan_log, tampers, inits, now,
                    att_last, anom_last, ticks,
                    security_event_queue, sensor_data_queue, crypto_check_counter,
                    heartbeat_counter, blocked, mon_last, att_refused >>

\* integrity_check_timer_callback
IntegrityCheckTimer(gsig) ==
    /\ boot_completed
    /\ ops < MaxOps
    /\ ops' = ops + 1
    /\ LET c == integrity_check_firmware(Ctx(NoFaults), g_chunks, TRUE, gsig)
       IN  /\ g_chunks' = c.chunks
           /\ integ_last' = [NoCall EXCEPT !.op = "integrity_check_timer",
                                           !.status = c.status, !.checked = c.checked,
                                           !.statuses = c.statuses, !.mutex = c.mutex]
           /\ security_event_queue' =
                 IF c.status # "INTEGRITY_OK"
                 THEN SendNonBlocking(security_event_queue,
                                      [type |-> "SECURITY_EVENT_INTEGRITY_FAILURE",
                                       severity |-> SECURITY_SEVERITY_CRITICAL,
                                       data |-> << c.status >>])
                 ELSE security_event_queue
    /\ UNCHANGED << g_integrity_initialized, g_config, g_metadata, g_stats,
                    g_integrity_mutex, g_runtime_check_task, next_chunk_to_check,
                    check_cycle, flash, ref_data, scan_log, tampers, inits, now,
                    attVars, anomVars, incVars,
                    boot_completed, restart_cause, sensor_data_queue,
                    security_monitor_task_state, crypto_check_counter,
                    heartbeat_counter, blocked, mon_last, att_refused >>

\* heartbeat_timer_callback
HeartbeatTimer ==
    /\ boot_completed
    /\ heartbeat_counter < MaxBeats
    /\ heartbeat_counter' = heartbeat_counter + 1
    /\ restart_cause' = IF security_monitor_task_state = "deleted"
                        THEN "monitor_task_deleted" ELSE restart_cause
    /\ UNCHANGED << integVars, now, attVars, anomVars, incVars,
                    boot_completed, security_event_queue, sensor_data_queue,
                    security_monitor_task_state, crypto_check_counter, blocked,
                    mon_last, att_refused >>


\* the incident manager's handler that the switch calls for an event type
HandlerName(type) ==
    CASE type = "SECURITY_EVENT_INTEGRITY_FAILURE" -> "incident_handle_integrity_failure"
      [] type = "SECURITY_EVENT_ANOMALY_DETECTED" -> "incident_handle_anomaly"
      [] type = "SECURITY_EVENT_ATTESTATION_FAILURE" -> "incident_handle_attestation_failure"
      [] type = "SECURITY_EVENT_UNAUTHORIZED_ACCESS" -> "incident_handle_unauthorized_access"

\* what the switch does itself for the types it hands to no handler
InlineResponse(type) ==
    CASE type = "SECURITY_EVENT_CRYPTO_ERROR" -> "esp32_crypto_health_check"
      [] type = "SECURITY_EVENT_EFUSE_CORRUPTION" -> "esp32_crypto_store_emergency_state"
      [] type = "SECURITY_EVENT_SECURE_BOOT_FAILURE" -> "esp_restart"
      [] OTHER -> "log"

\* a switch that has no case for attestation failures
DispatchMutantNoAttestationCase(event) ==
    IF event.type \in HandledTypes \ {"SECURITY_EVENT_ATTESTATION_FAILURE"}
    THEN LET h == CategoryHandler(g_incident_initialized, g_incident_stats, event, now)
         IN  [stats |-> h.stats, handling |-> Handling(event, h),
              restart |-> IF h.restart THEN "incident_handler" ELSE "none",
              handlers |-> << HandlerName(event.type) >>,
              response |-> HandlerName(event.type)]
    ELSE [stats |-> g_incident_stats, handling |-> inc_last, restart |-> "none",
          handlers |-> << >>, response |-> "log"]

\* the switch of security_monitor_task on a received event: the statistics
\* after it, the record of the handler call, and whether esp_restart is called
MonitorDispatch(event) ==
    IF event.type \in HandledTypes
    THEN LET h == CategoryHandler(g_incident_initialized, g_incident_stats, event, now)
         IN  [stats |-> h.stats, handling |-> Handling(event, h),
              restart |-> IF h.restart THEN "incident_handler" ELSE "none",
              handlers |-> << HandlerName(event.type) >>,
              response |-> HandlerName(event.type)]
    ELSE [stats |-> g_incident_stats, handling |-> inc_last,
          restart |-> IF event.type = "SECURITY_EVENT_SECURE_BOOT_FAILURE"
                      THEN "secure_boot_failure" ELSE "none",
          handlers |-> << >>,
          response |-> InlineResponse(event.type)]

\* one iteration of the loop of security_monitor_task; health_ok is the
\* result of esp32_crypto_health_check.  An iteration that receives nothing is
\* taken at the iteration of the health check, the ones before it are
\* MonitorIdle
MonitorStep(health_ok) ==
    /\ boot_completed
    /\ security_monitor_task_state = "running"
    /\ security_event_queue = << >> => crypto_check_counter = CryptoCheckEvery - 1
    /\ LET received == security_event_queue # << >>
           d == IF received THEN MonitorDispatch(Head(security_event_queue))
                ELSE [stats |-> g_incident_stats, handling |-> inc_last, restart |-> "none",
                      handlers |-> << >>, response |-> "none"]
           rest == IF received THEN Tail(security_event_queue) ELSE security_event_queue
           due == crypto_check_counter + 1 >= CryptoCheckEvery
       IN  /\ g_incident_stats' = d.stats
           /\ inc_last' = d.handling
           /\ inc_prev' = IF d.handling # inc_last THEN inc_last ELSE inc_prev
           /\ restart_cause' = d.restart
           /\ mon_last' = IF received
                          THEN [received |-> TRUE, event |-> Head(security_event_queue),
                                queue_before |-> security_event_queue,
                                queue_after |-> rest,
                                handlers |-> d.handlers, response |-> d.response]
                          ELSE mon_last
           /\ IF d.restart # "none"
              THEN /\ security_event_queue' = rest
                   /\ UNCHANGED crypto_check_counter
              ELSE /\ security_event_queue' =
                         IF due /\ ~health_ok
                         THEN SendNonBlocking(rest, [type |-> "SECURITY_EVENT_CRYPTO_ERROR",
                                                     severity |-> SECURITY_SEVERITY_HIGH,
                                                     data |-> << "crypto_status" >>])
                         ELSE rest
                   /\ crypto_check_counter' = IF due THEN 0 ELSE crypto_check_counter + 1
    /\ UNCHANGED << integVars, now, attVars, anomVars, g_incident_initialized,
                    boot_completed, sensor_data_queue, security_monitor_task_state,
                    heartbeat_counter, blocked, att_refused >>

\* the iterations of security_monitor_task that receive nothing, up to the
\* one before the crypto health check
MonitorIdle ==
    /\ boot_completed
    /\ security_monitor_task_state = "running"
    /\ security_event_queue = << >>
    /\ crypto_check_counter < CryptoCheckEvery - 1
    /\ crypto_check_counter' = CryptoCheckEvery - 1
    /\ UNCHANGED << integVars, now, attVars, anomVars, incVars,
                    boot_completed, restart_cause, security_event_queue,
                    sensor_data_queue, security_monitor_task_state,
                    heartbeat_counter, blocked, mon_last, att_refused >>

\* a task blocked in xQueueSend(..., portMAX_DELAY) goes on when the queue has
\* space
Unblock(task) ==
    /\ HasSpace(security_event_queue)
    /\ security_event_queue' = Append(security_event_queue, blocked[task])
    /\ blocked' = [blocked EXCEPT ![task] = NoEvent]

SendMutantDropWhenFull(task, needed, event) ==
    /\ security_event_queue' = IF needed /\ HasSpace(security_event_queue)
                               THEN Append(security_event_queue, event)
                               ELSE security_event_queue
    /\ UNCHANGED blocked

\* xQueueSend(security_event_queue, &event, portMAX_DELAY) by a task
SendBlocking(task, needed, event) ==
    IF ~needed THEN UNCHANGED << security_event_queue, blocked >>
    ELSE IF HasSpace(security_event_queue)
    THEN /\ security_event_queue' = Append(security_event_queue, event)
         /\ UNCHANGED blocked
    ELSE /\ blocked' = [blocked EXCEPT ![task] = event]
         /\ UNCHANGED security_event_queue

\* one iteration of the loop of sensor_task; read_ok: sensor_read_dht22
\* returned ESP_OK and data
SensorTaskStep(read_ok, data) ==
    /\ boot_completed
    /\ IF blocked["sensor_task"] # NoEvent
       THEN /\ Unblock("sensor_task")
            /\ sensor_data_queue' = SendSensorData(sensor_data_queue)
            /\ UNCHANGED << anomVars, now >>
       ELSE IF ~read_ok
       THEN UNCHANGED << anomVars, now, security_event_queue, blocked, sensor_data_queue >>
       ELSE /\ AnomalyDetect(data)
            /\ SendBlocking("sensor_task", anom_last'.result.is_anomaly,
                            [type |-> "SECURITY_EVENT_ANOMALY_DETECTED",
                             severity |-> SECURITY_SEVERITY_MEDIUM,
                             data |-> << anom_last'.result.type >>])
            /\ sensor_data_queue' =
                  IF anom_last'.result.is_anomaly /\ ~HasSpace(security_event_queue)
                  THEN sensor_data_queue ELSE SendSensorData(sensor_data_queue)
    /\ UNCHANGED << integVars, attVars, incVars, boot_completed, restart_cause,
                    security_monitor_task_state, crypto_check_counter, heartbeat_counter,
                    mon_last, att_refused >>

\* one iteration of the loop of attestation_task
AttestationTaskStep(challenge, random_ok, sign_ok, gsig) ==
    /\ boot_completed
    /\ IF blocked["attestation_task"] # NoEvent
       THEN /\ Unblock("attestation_task")
            /\ UNCHANGED << integVars, attVars, now >>
       ELSE /\ PerformContinuous(challenge, random_ok, sign_ok, NoFaults, TRUE, gsig)
            /\ SendBlocking("attestation_task",
                            att_last'.result.status # "ATTESTATION_SUCCESS",
                            [type |-> "SECURITY_EVENT_ATTESTATION_FAILURE",
                             severity |-> SECURITY_SEVERITY_HIGH,
                             data |-> << att_last'.result.status >>])
    /\ UNCHANGED << anomVars, incVars, boot_completed, restart_cause, sensor_data_queue,
                    security_monitor_task_state, crypto_check_counter, heartbeat_counter,
                    mon_last, att_refused >>

\* one iteration of the loop of attestation_task while the attestation
\* manager is not initialised: attestation_perform_continuous returns at its
\* first test without calling the engine, and the task sends its event
AttestationTaskRefused ==
    /\ boot_completed
    /\ ~g_attestation_initialized
    /\ blocked["attestation_task"] = NoEvent
    /\ att_refused < MaxRefused
    /\ att_refused' = att_refused + 1
    /\ LET c == PerformContinuousCall(1, TRUE, TRUE, NoFaults, TRUE, TRUE)
       IN  /\ att_last' = CycleRecord(c, 1)
           /\ SendBlocking("attestation_task",
                           c.result.status # "ATTESTATION_SUCCESS",
                           [type |-> "SECURITY_EVENT_ATTESTATION_FAILURE",
                            severity |-> SECURITY_SEVERITY_HIGH,
                            data |-> << c.result.status >>])
    /\ UNCHANGED << integVars, now, g_attestation_initialized, g_sequence_counter,
                    att_base, anomVars, incVars, boot_completed, restart_cause,
                    sensor_data_queue, security_monitor_task_state,
                    crypto_check_counter, heartbeat_counter, mon_last >>

\* app_main_panic_handler
PanicHandler ==
    /\ restart_cause' = "panic_handler"
    /\ UNCHANGED << integVars, now, attVars, anomVars, incVars,
                    boot_completed, security_event_queue, sensor_data_queue,
                    security_monitor_task_state, crypto_check_counter,
                    heartbeat_counter, blocked, mon_last, att_refused >>

BootStep == integ_last.op # "app_main" /\ integ_last'.op = "app_main"

\* C36 as stated: with an untampered image and healthy collaborators, boot
\* completes: the integrity engine is initialized before the initial full
\* integrity check runs, that check returns OK, and the tasks and timers are
\* started without the device restarting.
C36_BootCompletes ==
    [][ (BootStep /\ tampers = 0) =>
            /\ g_integrity_initialized
            /\ boot_completed'
            /\ restart_cause' = "none" ]_<< integVars, mainVars >>

\* app_main ran on the untampered image with every collaborator healthy and
\* the engine never initialized, and the device restarted
C36_Witness ==
    /\ integ_last.op = "app_main"
    /\ tampers = 0
    /\ inits = 0
    /\ ~g_integrity_initialized
    /\ ~boot_completed
    /\ restart_cause = "boot_failure"

\* the monitor task took the event at the head of the queue and nothing else
DequeuedHead ==
    /\ mon_last.queue_before # << >>
    /\ mon_last.event = Head(mon_last.queue_before)
    /\ mon_last.queue_after = Tail(mon_last.queue_before)

InTimerCallback == integ_last.op \in {"integrity_check_timer", "incremental_timer"}

\* C12: a timer callback acquires no integrity mutex and runs no
\* verification itself: it examines no chunk, it only sends an event without
\* waiting or notifies a task.
C12_TimerCallbacksNonBlocking ==
    InTimerCallback => (integ_last.mutex = "not_taken" /\ integ_last.checked = << >>)

\* integrity_check_timer_callback took the mutex and verified chunks itself
C12_Witness ==
    /\ integ_last.op = "integrity_check_timer"
    /\ integ_last.mutex = "taken"
    /\ integ_last.checked # << >>

\* C13: no producer waits for space in the security-event queue: none is
\* ever blocked in its send, whatever the number of pending events.
C13_ProducersNeverBlock ==
    \A task \in BlockingTasks : blocked[task] = NoEvent

\* the queue holds SECURITY_EVENT_QUEUE_SIZE events and attestation_task is
\* blocked in its send, its event neither queued nor dropped
C13_Witness ==
    /\ Len(security_event_queue) = SECURITY_EVENT_QUEUE_SIZE
    /\ blocked["attestation_task"].type = "SECURITY_EVENT_ATTESTATION_FAILURE"

\* the task is inside a check-and-update sequence on the chunk table
InSequence(task) == scanning[task].op # "none"

\* C14: a task that is inside a check-and-update sequence on the chunk
\* table holds the integrity mutex, so no two tasks are inside such
\* sequences at once.
C14_SequencesHoldMutex ==
    \A task \in ScanTasks : InSequence(task) => HoldsMutex(task)

\* the full check of one task holds the mutex in the middle of its scan
\* while the critical-sections check of another has updated the table
C14_Witness ==
    \E a, b \in ScanTasks :
        /\ a # b
        /\ scanning[a].op = "check_firmware_detailed" /\ HoldsMutex(a)
        /\ scanning[a].i = 1
        /\ scanning[b].op = "check_critical_sections"
        /\ scanning[b].i >= 2

\* the last call reported the timeout to its caller
TimeoutReported ==
    \/ integ_last.status = "INTEGRITY_ERROR_TIMEOUT"
    \/ integ_last.ret = "ESP_ERR_TIMEOUT"

\* C15: an operation whose wait for the integrity mutex times out returns a
\* Timeout status or error to its caller and leaves the chunk table and the
\* statistics as they were.
C15_TimeoutReported ==
    [][ integ_last'.mutex = "timeout" =>
            /\ TimeoutReported'
            /\ g_chunks' = g_chunks
            /\ g_stats' = g_stats ]_integVars

\* runtime_check_task gave up its wait while another task was in the middle
\* of a full check, and reported nothing
C15_Witness ==
    /\ integ_last.op = "runtime_starved"
    /\ integ_last.mutex = "timeout"
    /\ ~TimeoutReported
    /\ \E t \in ScanTasks : HoldsMutex(t) /\ scanning[t].op = "check_firmware_detailed"

\* the number of chunk verifications of the last call that returned
\* INTEGRITY_ERROR_CORRUPTED
CorruptedCount(statuses) ==
    Cardinality({ k \in 1..Len(statuses) : statuses[k] = "INTEGRITY_ERROR_CORRUPTED" })

\* C16: every call of integrity_check_chunk that returns Corrupted, made by
\* the incremental scan on its own or in a cycle of runtime_check_task, adds
\* exactly 1 to the corruption_detections statistic.
C16_CorruptionCounted ==
    [][ (/\ integ_last'.op \in {"incremental_check", "runtime_cycle"}
         /\ check_cycle' # 0)
            => g_stats'.corruption_detections
                  = g_stats.corruption_detections + CorruptedCount(integ_last'.statuses)
      ]_integVars

\* a cycle of runtime_check_task found a chunk corrupted and counted the
\* failed check, and corruption_detections is still 0
C16_Witness ==
    /\ integ_last.op = "runtime_cycle"
    /\ CorruptedCount(integ_last.statuses) = 1
    /\ g_stats.failed_checks >= 1
    /\ g_stats.corruption_detections = 0

\* the last call was a full check that scanned the table
FullCheckScanned ==
    /\ integ_last.op = "check_firmware_detailed"
    /\ integ_last.res.written

\* the first status of the scan that is not OK
FirstNotOk(statuses) ==
    LET bad == { k \in 1..Len(statuses) : statuses[k] # "INTEGRITY_OK" }
    IN  statuses[CHOOSE k \in bad : \A j \in bad : k <= j]

\* C17: the status of a full check is Corrupted whenever a chunk was found
\* corrupted, whatever failed before or after it; with no chunk corrupted it
\* is the first status of the scan that is not OK, the global signature
\* being checked last.
C17_OverallStatus ==
    FullCheckScanned =>
        LET st == integ_last.statuses
        IN  IF CorruptedCount(st) > 0
            THEN integ_last.status = "INTEGRITY_ERROR_CORRUPTED"
            ELSE IF \E k \in 1..Len(st) : st[k] # "INTEGRITY_OK"
            THEN integ_last.status = FirstNotOk(st)
            ELSE integ_last.status =
                    IF integ_last.res.signature_valid THEN "INTEGRITY_OK"
                    ELSE "INTEGRITY_ERROR_SIGNATURE"

\* a full check whose first chunk could not be read, whose second was found
\* corrupted and whose third failed in another way reported Corrupted
C17_Witness ==
    /\ FullCheckScanned
    /\ Len(integ_last.statuses) = 3
    /\ integ_last.statuses[1] \notin {"INTEGRITY_OK", "INTEGRITY_ERROR_CORRUPTED"}
    /\ integ_last.statuses[2] = "INTEGRITY_ERROR_CORRUPTED"
    /\ integ_last.statuses[3] \notin {"INTEGRITY_OK", "INTEGRITY_ERROR_CORRUPTED",
                                      integ_last.statuses[1]}
    /\ integ_last.status = "INTEGRITY_ERROR_CORRUPTED"

\* the digest of the chunk's bytes in flash is the one stored in the table
DigestMatches(i) == crypto_hash_compute(CurrentData(i)) = g_chunks[i].hash

\* the ids of the chunk table, in order
RECURSIVE TableOrder(_)
TableOrder(n) == IF n = 0 THEN <<>> ELSE Append(TableOrder(n - 1), n - 1)

\* C18: a verification operation returns OK only if everything it checked
\* held: the engine is initialised, the read and the hash computation of
\* every examined chunk succeeded, its digest is the stored one, its
\* signature verified where the method requires one, and for the full check
\* every chunk of the table was examined and the global signature verified.
C18_OkOnlyIfAllHeld ==
    integ_last.status = "INTEGRITY_OK" =>
        /\ integ_last.op = "check_chunk" =>
              /\ g_integrity_initialized
              /\ integ_last.chunk_id < g_metadata.chunk_count
              /\ integ_last.fault \notin {"alloc", "read", "hash"}
              /\ RequiresSignature(g_config) => integ_last.fault # "sig"
              /\ DigestMatches(integ_last.chunk_id)
        /\ integ_last.op \in {"check_firmware_detailed", "check_critical_sections",
                              "incremental_check"} =>
              /\ g_integrity_initialized
              /\ \A k \in 1..Len(integ_last.checked) :
                    /\ integ_last.statuses[k] = "INTEGRITY_OK"
                    /\ DigestMatches(integ_last.checked[k])
        /\ integ_last.op = "check_firmware_detailed" =>
              /\ integ_last.checked = TableOrder(g_metadata.chunk_count)
              /\ RequiresSignature(g_config) => integ_last.res.signature_valid

\* a full check over three chunks under a method that requires signatures
\* returned OK
C18_Witness ==
    /\ integ_last.op = "check_firmware_detailed"
    /\ integ_last.status = "INTEGRITY_OK"
    /\ Len(integ_last.checked) = 3
    /\ RequiresSignature(g_config)
    /\ integ_last.res.signature_valid

\* the metadata block does not validate: wrong magic, wrong version or a
\* self-checksum that does not match
MetadataBroken ==
    \/ g_metadata.magic # INTEGRITY_MAGIC
    \/ g_metadata.version # INTEGRITY_METADATA_VERSION
    \/ ChecksumMismatch

\* C19: a call of integrity_checker_init that finds metadata which do not
\* validate fails and leaves the engine uninitialised; and every
\* verification call made while the engine is uninitialised returns
\* INTEGRITY_ERROR_NOT_INITIALIZED, examines no chunk, counts no chunk as
\* verified and marks none verified in the table.
C19_RefusesToStart ==
    [][ /\ (inits' = inits + 1 /\ ~g_integrity_initialized /\ MetadataBroken) =>
              (~g_integrity_initialized' /\ integ_last'.ret # "ESP_OK")
        /\ (~g_integrity_initialized /\ integ_last'.op \in VerificationOps) =>
              /\ integ_last'.status = "INTEGRITY_ERROR_NOT_INITIALIZED"
              /\ integ_last'.checked = <<>>
              /\ integ_last'.res.verified_chunks = 0
              /\ g_chunks' = g_chunks
      ]_integVars

\* integrity_checker_init created its mutex and then failed on the metadata,
\* and the full check called afterwards was refused
C19_Witness ==
    /\ inits = 1
    /\ ~g_integrity_initialized
    /\ g_integrity_mutex = "free"
    /\ MetadataBroken
    /\ integ_last.op = "check_firmware_detailed"
    /\ integ_last.status = "INTEGRITY_ERROR_NOT_INITIALIZED"

\* the statuses of a chunk verification that failed
ChunkFailures ==
    {"INTEGRITY_ERROR_CORRUPTED", "INTEGRITY_ERROR_SIGNATURE",
     "INTEGRITY_ERROR_FLASH_READ", "INTEGRITY_ERROR_MEMORY"}

\* C20: a call of integrity_check_chunk that returns Corrupted, a signature
\* error, a read failure or an allocation failure calls
\* trigger_integrity_event, and with it the registered callback, once with
\* that status and the id of the chunk.
C20_EveryFailureNotified ==
    (integ_last.op = "check_chunk" /\ integ_last.status \in ChunkFailures) =>
        integ_last.events = << IntegrityEvent(integ_last.status, integ_last.chunk_id) >>

\* a chunk of an initialised engine could not be read and no event was raised
C20_Witness ==
    /\ integ_last.op = "check_chunk"
    /\ g_integrity_initialized
    /\ integ_last.fault = "read"
    /\ integ_last.status = "INTEGRITY_ERROR_FLASH_READ"
    /\ integ_last.events = <<>>

\* the chunks a scan found with a digest or a signature that does not match
MismatchedChunks(call) ==
    { call.checked[k] : k \in { j \in 1..Len(call.statuses) :
                                  call.statuses[j] \in {"INTEGRITY_ERROR_CORRUPTED",
                                                        "INTEGRITY_ERROR_SIGNATURE"} } }

\* the event names one of the chunks: its data holds a chunk id after the
\* status
IdentifiesChunk(event, ids) == Len(event.data) >= 2 /\ event.data[2] \in ids

\* C21: a periodic full check or a cycle of the background scan that finds
\* a chunk whose digest or signature does not match puts on the
\* security-event queue an integrity-failure event that names such a chunk.
C21_MismatchSurfaced ==
    [][ (/\ ops' = ops + 1
         /\ integ_last'.op \in {"integrity_check_timer", "runtime_cycle"}
         /\ MismatchedChunks(integ_last') # {})
            => /\ Len(security_event_queue') = Len(security_event_queue) + 1
               /\ LET event == security_event_queue'[Len(security_event_queue')]
                  IN  /\ event.type = "SECURITY_EVENT_INTEGRITY_FAILURE"
                      /\ IdentifiesChunk(event, MismatchedChunks(integ_last'))
      ]_<< integVars, security_event_queue >>

\* after boot a cycle of runtime_check_task found a corrupted chunk and the
\* security-event queue is empty
C21_Witness ==
    /\ boot_completed
    /\ integ_last.op = "runtime_cycle"
    /\ MismatchedChunks(integ_last) # {}
    /\ security_event_queue = <<>>

\* the step is a cycle of attestation_task that called
\* attestation_perform_continuous
AttestationCycle ==
    \/ att_refused' = att_refused + 1
    \/ ops' = ops + 1 /\ integ_last'.op = "attestation"

\* C22: every cycle of attestation_task whose attestation_perform_continuous
\* call returns a status other than ATTESTATION_SUCCESS sends an
\* attestation-failure event to the security-event queue: the event is
\* appended, or with the queue full it is held by the sending task and
\* appended as it is when the task goes on.
C22_FailureRaised ==
    [][ /\ (AttestationCycle /\ att_last'.result.status # "ATTESTATION_SUCCESS") =>
              IF HasSpace(security_event_queue)
              THEN /\ Len(security_event_queue') = Len(security_event_queue) + 1
                   /\ security_event_queue'[Len(security_event_queue')].type
                         = "SECURITY_EVENT_ATTESTATION_FAILURE"
              ELSE /\ blocked'["attestation_task"].type
                         = "SECURITY_EVENT_ATTESTATION_FAILURE"
                   /\ security_event_queue' = security_event_queue
        /\ (/\ blocked["attestation_task"] # NoEvent
            /\ blocked'["attestation_task"] # blocked["attestation_task"]) =>
              security_event_queue'
                 = Append(security_event_queue, blocked["attestation_task"])
      ]_<< att_refused, ops, integ_last, att_last, blocked, security_event_queue >>

\* an event that attestation_task held while the queue was full is now the
\* last of the queue
C22_Witness ==
    /\ att_refused = MaxRefused
    /\ att_last.result.status = "ATTESTATION_ERROR_COMMUNICATION"
    /\ blocked["attestation_task"] = NoEvent
    /\ security_event_queue # <<>>
    /\ security_event_queue[Len(security_event_queue)].type
          = "SECURITY_EVENT_ATTESTATION_FAILURE"

\* the positions of the scan at which the chunk check returned the status
Positions(statuses, status) == { k \in 1..Len(statuses) : statuses[k] = status }

\* the ids listed in failed_chunk_ids
ListedIds(res) == { res.failed_chunk_ids[k] : k \in 1..Len(res.failed_chunk_ids) }

\* C34: integrity_check_chunk on a chunk whose buffer cannot be allocated
\* returns INTEGRITY_ERROR_MEMORY, not INTEGRITY_ERROR_CORRUPTED, and
\* integrity_check_firmware_detailed counts every chunk with that status in
\* failed_chunks and none of them in corrupted_chunks.
C34_AllocationFailureDistinct ==
    /\ (/\ integ_last.op = "check_chunk"
        /\ integ_last.fault = "alloc"
        /\ integ_last.status # "INTEGRITY_ERROR_NOT_INITIALIZED")
          => integ_last.status = "INTEGRITY_ERROR_MEMORY"
    /\ FullCheckScanned =>
          LET statuses == integ_last.statuses
              neither == { k \in 1..Len(statuses) :
                             statuses[k] \notin {"INTEGRITY_OK", "INTEGRITY_ERROR_CORRUPTED"} }
          IN  /\ Positions(statuses, "INTEGRITY_ERROR_MEMORY") \subseteq neither
              /\ integ_last.res.failed_chunks = Cardinality(neither)
              /\ integ_last.res.corrupted_chunks
                    = Cardinality(Positions(statuses, "INTEGRITY_ERROR_CORRUPTED"))
              /\ \A k \in Positions(statuses, "INTEGRITY_ERROR_MEMORY") :
                    integ_last.checked[k] \in ListedIds(integ_last.res)

\* a full check that met a chunk it could not allocate a buffer for and a
\* corrupted chunk
C34_Witness ==
    /\ FullCheckScanned
    /\ Positions(integ_last.statuses, "INTEGRITY_ERROR_MEMORY") # {}
    /\ Positions(integ_last.statuses, "INTEGRITY_ERROR_CORRUPTED") # {}
    /\ integ_last.res.failed_chunks = 1
    /\ integ_last.res.corrupted_chunks = 1

\* the last call ran the loop of the full check over the table
TableScanned ==
    /\ integ_last.op \in {"check_firmware_detailed", "scan_loop"}
    /\ integ_last.res.written

\* the chunks that failed before position k of the scan
FailedBefore(statuses, k) == { j \in 1..(k - 1) : statuses[j] # "INTEGRITY_OK" }

\* every chunk of the table was checked once, in the order of the table, and
\* every corrupted chunk was counted
ScanCompleteAndCounted ==
    /\ Len(integ_last.checked) = integ_last.res.total_chunks
    /\ Len(integ_last.statuses) = integ_last.res.total_chunks
    /\ \A k \in 1..Len(integ_last.checked) : integ_last.checked[k] = k - 1
    /\ integ_last.res.corrupted_chunks
          = Cardinality(Positions(integ_last.statuses, "INTEGRITY_ERROR_CORRUPTED"))

\* C35 as stated: a corrupted chunk does not end the full check: every chunk
\* of the table is checked once in the same call, and every corrupted chunk
\* is counted and listed in failed_chunk_ids.
C35_CorruptedCountedAndListed ==
    TableScanned =>
        /\ ScanCompleteAndCounted
        /\ \A k \in Positions(integ_last.statuses, "INTEGRITY_ERROR_CORRUPTED") :
              integ_last.checked[k] \in ListedIds(integ_last.res)

\* C35: a corrupted chunk does not end the full check: every chunk of the
\* table is checked once in the same call and every corrupted chunk is
\* counted; a corrupted chunk is listed in failed_chunk_ids exactly when fewer
\* than 16 chunks failed before it in the scan.
C35_CorruptedCountedListedToCap ==
    TableScanned =>
        /\ ScanCompleteAndCounted
        /\ \A k \in Positions(integ_last.statuses, "INTEGRITY_ERROR_CORRUPTED") :
              integ_last.checked[k] \in ListedIds(integ_last.res)
                 <=> Cardinality(FailedBefore(integ_last.statuses, k)) < FailedIdsCap
        /\ Len(integ_last.res.failed_chunk_ids) <= FailedIdsCap

\* a scan of 18 chunks, 17 of them corrupted: all 17 counted, the first 16
\* listed
C35_Witness ==
    /\ TableScanned
    /\ integ_last.res.total_chunks = 18
    /\ integ_last.res.verified_chunks = 1
    /\ integ_last.res.corrupted_chunks = 17
    /\ Len(integ_last.res.failed_chunk_ids) = FailedIdsCap
    /\ 17 \notin ListedIds(integ_last.res)

\* a critical-sections check has written its result
CriticalScanned ==
    /\ integ_last.op \in {"check_critical_sections", "critical_loop"}
    /\ integ_last.res.written

\* the ids of the chunks flagged critical in the table scanned
CriticalIds == { k - 1 : k \in Positions(integ_last.critical, TRUE) }

\* C39: integrity_check_critical_sections checks exactly the chunks flagged
\* critical, each once, in the table's order, and no other chunk; in its
\* result total_chunks is the number of critical chunks and verified_chunks +
\* corrupted_chunks + failed_chunks add up to it.
C39_ExactlyCriticalChunks ==
    CriticalScanned =>
        /\ Len(integ_last.checked) = Cardinality(CriticalIds)
        /\ { integ_last.checked[j] : j \in 1..Len(integ_last.checked) } = CriticalIds
        /\ \A j \in 1..(Len(integ_last.checked) - 1) :
              integ_last.checked[j] < integ_last.checked[j + 1]
        /\ integ_last.res.total_chunks = Cardinality(CriticalIds)
        /\ integ_last.res.verified_chunks + integ_last.res.corrupted_chunks
              + integ_last.res.failed_chunks = Cardinality(CriticalIds)
        /\ integ_last.res.verified_chunks
              = Cardinality(Positions(integ_last.statuses, "INTEGRITY_OK"))
        /\ integ_last.res.corrupted_chunks
              = Cardinality(Positions(integ_last.statuses, "INTEGRITY_ERROR_CORRUPTED"))

\* a table of six chunks, the first four critical: the four were checked,
\* one verified, one corrupted, two failed, and chunks 4 and 5 were not
C39_Witness ==
    /\ CriticalScanned
    /\ Len(integ_last.critical) = 6
    /\ CriticalIds = 0..3
    /\ integ_last.checked = << 0, 1, 2, 3 >>
    /\ integ_last.res.verified_chunks = 1
    /\ integ_last.res.corrupted_chunks = 1
    /\ integ_last.res.failed_chunks = 2




(***************************************************************************)
(* Specifications: one per component, over the whole state                 *)
(***************************************************************************)
vars == << integVars, now, scanning, attVars, anomVars, incVars, mainVars >>

Init ==
    /\ IntegInit
    /\ now = 0
    /\ ScanInit
    /\ AttestInit
    /\ AnomInit
    /\ IncInit
    /\ MainInit

\* what the operations of each component leave alone
EngineFrame == UNCHANGED << scanning, attVars, anomVars, incVars, mainVars >>
ScanFrame == UNCHANGED << attVars, anomVars, incVars, mainVars >>
AttestFrame == UNCHANGED << scanning, anomVars, incVars, mainVars >>
AnomalyFrame == UNCHANGED << integVars, scanning, attVars, incVars, mainVars >>
IncidentFrame ==
    UNCHANGED << g_integrity_initialized, g_config, g_metadata, g_chunks, g_stats,
                 g_integrity_mutex, g_runtime_check_task, next_chunk_to_check,
                 check_cycle, flash, integ_last, ref_data, scan_log, tampers, inits,
                 now, scanning, attVars, anomVars, mainVars >>

\* integrity_check_chunk and the engine's life cycle
ChunkNext ==
    \/ \E fs \in FirmwareSizes : InitMetadata(0, fs) /\ EngineFrame
    \/ TamperMetadata /\ EngineFrame
    \/ CheckerInit /\ EngineFrame
    \/ CheckerDeinit /\ EngineFrame
    \/ \E a \in FlashAddrs, v \in ByteValues : TamperFlash(a, v) /\ EngineFrame
    \/ \E i \in ChunkIds, k \in FaultKinds : CheckChunk(i, k) /\ EngineFrame

SpecChunk == Init /\ [][ChunkNext]_vars

\* the full and the critical-section checks
FullNext ==
    \/ \E fs \in FirmwareSizes : InitMetadata(0, fs) /\ EngineFrame
    \/ TamperMetadata /\ EngineFrame
    \/ CheckerInit /\ EngineFrame
    \/ CheckerDeinit /\ EngineFrame
    \/ \E a \in FlashAddrs, v \in ByteValues : TamperFlash(a, v) /\ EngineFrame
    \/ \E f \in FaultMaps, g \in BOOLEAN : CheckFirmwareDetailed(f, TRUE, g) /\ EngineFrame
    \/ CheckFirmwareDetailed(NoFaults, FALSE, TRUE) /\ EngineFrame
    \/ \E f \in FaultMaps : CheckCriticalSections(f) /\ EngineFrame

SpecFull == Init /\ [][FullNext]_vars

\* the engine or the image changed since the last verification
AfterChange == integ_last.op \notin VerificationOps

\* the status of the verification operations, one operation after each
\* change of the engine or of the image; up to MaxScanFaults chunks meet a
\* fault in a full check
StatusNext ==
    \/ \E fs \in FirmwareSizes : InitMetadata(0, fs) /\ EngineFrame
    \/ TamperMetadata /\ EngineFrame
    \/ \E cfg \in ScanConfigs :
          /\ CheckerInitCall(cfg, TRUE, NoFaults, integrity_validate_metadata(g_metadata))
          /\ EngineFrame
    \/ \E a \in FlashAddrs, v \in ByteValues : TamperFlash(a, v) /\ EngineFrame
    \/ \E f \in ScanFaultMaps, g \in BOOLEAN :
          AfterChange /\ CheckFirmwareDetailed(f, TRUE, g) /\ EngineFrame
    \/ \E i \in ChunkIds, k \in FaultKinds :
          AfterChange /\ CheckChunk(i, k) /\ EngineFrame
    \/ \E f \in FaultMaps : AfterChange /\ CheckCriticalSections(f) /\ EngineFrame
    \/ \E f \in FaultMaps : AfterChange /\ IncrementalCheck(f) /\ EngineFrame

SpecStatus == Init /\ [][StatusNext]_vars

\* the full check and the critical-sections check: their loops on tables
\* long enough to pass the cap of failed_chunk_ids and to hold chunks that
\* are not critical, and the whole of them on the engine's table
AggregateNext ==
    \/ \E statuses \in TableStatuses : ScanTable(statuses) /\ EngineFrame
    \/ \E fs \in FirmwareSizes : InitMetadata(0, fs) /\ EngineFrame
    \/ \E cfg \in ScanConfigs :
          /\ CheckerInitCall(cfg, TRUE, NoFaults, integrity_validate_metadata(g_metadata))
          /\ EngineFrame
    \/ \E a \in FlashAddrs, v \in ByteValues : TamperFlash(a, v) /\ EngineFrame
    \/ \E f \in ScanFaultMaps, g \in BOOLEAN :
          AfterChange /\ CheckFirmwareDetailed(f, TRUE, g) /\ EngineFrame
    \/ \E statuses \in CriticalStatuses : ScanCritical(statuses) /\ EngineFrame
    \/ \E f \in FaultMaps : AfterChange /\ CheckCriticalSections(f) /\ EngineFrame

SpecAggregate == Init /\ [][AggregateNext]_vars

\* the runtime check task and the incremental scan
RuntimeNext ==
    \/ \E fs \in FirmwareSizes : InitMetadata(0, fs) /\ EngineFrame
    \/ TamperMetadata /\ EngineFrame
    \/ CheckerInit /\ EngineFrame
    \/ CheckerDeinit /\ EngineFrame
    \/ \E a \in FlashAddrs, v \in ByteValues : TamperFlash(a, v) /\ EngineFrame
    \/ \E t \in BOOLEAN : StartRuntimeCheck(t) /\ EngineFrame
    \/ \E f \in FaultMaps : IncrementalCheck(f) /\ EngineFrame
    \/ \E f \in FaultMaps : RuntimeCheckCycle(f, NoFaults, TRUE, TRUE) /\ EngineFrame
    \/ \E f \in FaultMaps, g \in BOOLEAN :
          RuntimeCheckCycle(NoFaults, f, TRUE, g) /\ EngineFrame
    \/ RuntimeCheckCycle(NoFaults, NoFaults, FALSE, TRUE) /\ EngineFrame
    \/ \E k \in StarvedRuns : RuntimeCheckStarved(k) /\ EngineFrame
    \/ IncrementalTimerCallback /\ EngineFrame

SpecRuntime == Init /\ [][RuntimeNext]_vars

\* the storage faults an attestation cycle's integrity check is run against
AttestFaultMaps == { f \in FaultMaps : \A i \in ChunkIds : f[i] \in {"none", "read"} }

\* the attestation manager over an engine that is brought up without storage
\* faults and whose image is tampered with
AttestNext ==
    \/ \E fs \in FirmwareSizes : InitMetadata(0, fs) /\ EngineFrame
    \/ \E cfg \in ConfigChoices :
          /\ CheckerInitCall(cfg, TRUE, NoFaults, integrity_validate_metadata(g_metadata))
          /\ EngineFrame
    \/ \E a \in FlashAddrs, v \in ByteValues : TamperFlash(a, v) /\ EngineFrame
    \/ \E v \in BOOLEAN :
          AttestationManagerInit(v) /\ UNCHANGED << integVars, now >> /\ AttestFrame
    \/ AttestationManagerDeinit /\ UNCHANGED << integVars, now >> /\ AttestFrame
    \/ \E ch \in ChallengeValues :
          PerformContinuous(ch, FALSE, TRUE, NoFaults, TRUE, TRUE) /\ AttestFrame
    \/ \E ch \in ChallengeValues :
          PerformContinuous(ch, TRUE, FALSE, NoFaults, TRUE, TRUE) /\ AttestFrame
    \/ \E ch \in ChallengeValues :
          PerformContinuous(ch, TRUE, TRUE, NoFaults, FALSE, TRUE) /\ AttestFrame
    \/ \E ch \in ChallengeValues, f \in AttestFaultMaps, g \in BOOLEAN :
          PerformContinuous(ch, TRUE, TRUE, f, TRUE, g) /\ AttestFrame

SpecAttest == Init /\ [][AttestNext]_vars

\* the attestation manager with a random source that gives no value twice
ChallengeNext ==
    \/ \E fs \in FirmwareSizes : InitMetadata(0, fs) /\ EngineFrame
    \/ \E cfg \in ScanConfigs :
          /\ CheckerInitCall(cfg, TRUE, NoFaults, integrity_validate_metadata(g_metadata))
          /\ EngineFrame
    \/ \E a \in FlashAddrs, v \in ByteValues : TamperFlash(a, v) /\ EngineFrame
    \/ AttestationManagerInit(TRUE) /\ UNCHANGED << integVars, now >> /\ AttestFrame
    \/ AttestationManagerDeinit /\ UNCHANGED << integVars, now >> /\ AttestFrame
    \/ PerformContinuous(0, FALSE, TRUE, NoFaults, TRUE, TRUE) /\ AttestFrame
    \/ \E ch \in FreshValues, sign_ok \in BOOLEAN :
          PerformContinuous(ch, TRUE, sign_ok, NoFaults, TRUE, TRUE) /\ AttestFrame

SpecChallenge == Init /\ [][ChallengeNext]_vars

\* the anomaly detector and the clock
AnomalyNext ==
    \/ AnomalyDetectorInit /\ AnomalyFrame
    \/ AnomalyDetectorDeinit /\ AnomalyFrame
    \/ \E enable \in BOOLEAN : AnomalySetLearningMode(enable) /\ AnomalyFrame
    \/ \E data \in SensorSamples : AnomalyDetect(data) /\ AnomalyFrame
    \/ \E data \in SensorSamples : AnomalyUpdateBaseline(data) /\ AnomalyFrame
    \/ Tick /\ AnomalyFrame

SpecAnomaly == Init /\ [][AnomalyNext]_vars

\* the anomaly detector out of learning mode, fed by a sensor whose
\* temperature does not fall
ScoreNext ==
    \/ AnomalyDetectorInit /\ AnomalyFrame
    \/ AnomalySetLearningMode(FALSE) /\ AnomalyFrame
    \/ \E data \in ScoringSamples : AnomalyDetect(data) /\ AnomalyFrame

SpecScore == Init /\ [][ScoreNext]_vars

\* the anomaly detector in learning mode, fed until its history has wrapped
HistoryNext ==
    \/ AnomalyDetectorInit /\ AnomalyFrame
    \/ \E data \in LongRunSamples : AnomalyUpdateBaseline(data) /\ AnomalyFrame
    \/ \E data \in LongRunSamples : AnomalyDetect(data) /\ AnomalyFrame

SpecHistory == Init /\ [][HistoryNext]_vars

\* the incident manager
IncidentNext ==
    \/ IncidentManagerInit /\ UNCHANGED ops /\ IncidentFrame
    \/ IncidentManagerDeinit /\ UNCHANGED ops /\ IncidentFrame
    \/ \E type \in HandledTypes, severity \in Severities :
          HandleIncident([type |-> type, severity |-> severity, data |-> <<>>]) /\ IncidentFrame

SpecIncident == Init /\ [][IncidentNext]_vars

\* the samples sensor_task reads: the outlying one comes last
MainSamples ==
    { data \in SensorSamples :
        /\ data.is_valid
        /\ data.temperature \in ExtremeTemperature
              => g_context.sample_count = ANOMALY_WINDOW_SIZE - 1 }

\* the device: the engine is brought up with the default configuration and
\* without storage faults, then app_main runs, then the tasks, the timer
\* callbacks and the panic handler; esp_restart ends the run
Running == restart_cause = "none"

MainNext ==
    \/ \E fs \in FirmwareSizes : Running /\ InitMetadata(0, fs) /\ EngineFrame
    \/ Running /\ EngineFrame
          /\ CheckerInitCall(DefaultConfig, TRUE, NoFaults,
                             integrity_validate_metadata(g_metadata))
    \/ \E fault \in BootFaults : Running /\ AppMain(fault, TRUE) /\ UNCHANGED scanning
    \/ Running /\ AppMain("none", FALSE) /\ UNCHANGED scanning
    \/ \E gsig \in BOOLEAN : Running /\ IntegrityCheckTimer(gsig) /\ UNCHANGED scanning
    \/ Running /\ HeartbeatTimer /\ UNCHANGED scanning
    \/ \E health_ok \in BOOLEAN : Running /\ MonitorStep(health_ok) /\ UNCHANGED scanning
    \/ Running /\ MonitorIdle /\ UNCHANGED scanning
    \/ \E data \in MainSamples : Running /\ SensorTaskStep(TRUE, data) /\ UNCHANGED scanning
    \/ \E data \in MainSamples : Running /\ SensorTaskStep(FALSE, data) /\ UNCHANGED scanning
    \/ Running /\ AttestationTaskStep(1, TRUE, TRUE, TRUE) /\ UNCHANGED scanning
    \/ Running /\ AttestationTaskStep(1, TRUE, FALSE, TRUE) /\ UNCHANGED scanning
    \/ Running /\ boot_completed /\ Tick /\ AnomalyFrame
    \/ Running /\ PanicHandler /\ UNCHANGED scanning

SpecMain == Init /\ [][MainNext]_vars

\* the security-event queue under load: the attestation manager is taken
\* down after boot and attestation_task reports a failure in every period,
\* the monitor task drains the queue, and the integrity-check timer fires
\* while the queue is full
QueueNext ==
    \/ \E fs \in FirmwareSizes : Running /\ InitMetadata(0, fs) /\ EngineFrame
    \/ Running /\ EngineFrame
          /\ CheckerInitCall(DefaultConfig, TRUE, NoFaults,
                             integrity_validate_metadata(g_metadata))
    \/ Running /\ AppMain("none", TRUE) /\ UNCHANGED scanning
    \/ Running /\ boot_completed /\ AttestationManagerDeinit
          /\ UNCHANGED << integVars, now >> /\ AttestFrame
    \/ Running /\ AttestationTaskRefused /\ UNCHANGED scanning
    \/ Running /\ blocked["attestation_task"] # NoEvent
          /\ AttestationTaskStep(1, TRUE, TRUE, TRUE) /\ UNCHANGED scanning
    \/ Running /\ ~HasSpace(security_event_queue) /\ IntegrityCheckTimer(FALSE) /\ UNCHANGED scanning
    \/ Running /\ MonitorStep(TRUE) /\ UNCHANGED scanning

SpecQueue == Init /\ [][QueueNext]_vars

\* two tasks that run full checks and critical-sections checks against an
\* engine brought up without storage faults, while the image is tampered with
MutexNext ==
    \/ \E fs \in FirmwareSizes : InitMetadata(0, fs) /\ EngineFrame
    \/ \E cfg \in ConfigChoices :
          /\ CheckerInitCall(cfg, TRUE, NoFaults, integrity_validate_metadata(g_metadata))
          /\ EngineFrame
    \/ \E a \in FlashAddrs, v \in ByteValues : TamperFlash(a, v) /\ EngineFrame
    \/ \E t \in ScanTasks : BeginFirmwareCheck(t) /\ ScanFrame
    \/ \E t \in ScanTasks : FirmwareCheckTimeout(t) /\ ScanFrame
    \/ \E t \in ScanTasks : BeginCriticalSections(t) /\ ScanFrame
    \/ \E t \in ScanTasks : ScanStep(t) /\ ScanFrame
    \/ \E t \in ScanTasks, g \in BOOLEAN : ScanEnd(t, g) /\ ScanFrame
    \/ \E t \in ScanTasks : GetStatistics(t) /\ ScanFrame
    \/ \E t \in ScanTasks : ResetStatistics(t) /\ ScanFrame
    \/ StartRuntimeCheck(TRUE) /\ EngineFrame
    \/ \E k \in StarvedRuns : RuntimeCheckTimeout(k) /\ ScanFrame

SpecMutex == Init /\ [][MutexNext]_vars

\* the device after boot, its image tampered with: the periodic full check,
\* the background scan and the monitor task
SurfaceNext ==
    \/ \E fs \in FirmwareSizes : Running /\ InitMetadata(0, fs) /\ EngineFrame
    \/ \E cfg \in ScanConfigs :
          /\ Running /\ EngineFrame
          /\ CheckerInitCall(cfg, TRUE, NoFaults, integrity_validate_metadata(g_metadata))
    \/ Running /\ AppMain("none", TRUE) /\ UNCHANGED scanning
    \/ \E a \in FlashAddrs, v \in ByteValues :
          Running /\ boot_completed /\ TamperFlash(a, v) /\ EngineFrame
    \/ \E gsig \in BOOLEAN : Running /\ IntegrityCheckTimer(gsig) /\ UNCHANGED scanning
    \/ Running /\ boot_completed /\ StartRuntimeCheck(TRUE) /\ EngineFrame
    \/ Running /\ boot_completed
          /\ RuntimeCheckCycle(NoFaults, NoFaults, TRUE, TRUE) /\ EngineFrame
    \/ Running /\ MonitorStep(TRUE) /\ UNCHANGED scanning

SpecSurface == Init /\ [][SurfaceNext]_vars

\* every operation of every component
Next ==
    \/ ChunkNext
    \/ FullNext
    \/ RuntimeNext
    \/ AttestNext
    \/ AnomalyNext
    \/ IncidentNext
    \/ MainNext
    \/ QueueNext
    \/ MutexNext
    \/ StatusNext
    \/ SurfaceNext
    \/ ChallengeNext
    \/ ScoreNext
    \/ HistoryNext
    \/ AggregateNext

Spec == Init /\ [][Next]_vars

====
